---- MODULE Spec2Model ----
(***************************************************************************)
(* Model of the rubri-backend execution-and-observability core:            *)
(*   - the progress ledger (app/tasks/progress_tracker.py),                *)
(*   - the worker task (app/tasks/question_generation_tasks.py),           *)
(*   - the five-agent orchestrator (app/services/qgen/...),                *)
(*   - the websocket fan-out manager and the Redis subscriber              *)
(*     (app/websocket_manager.py, app/services/streaming/...).             *)
(***************************************************************************)
EXTENDS Integers, Sequences, FiniteSets, TLC

VARIABLES
    ledger,      \* the TaskStatus row of the task id (models.py:118-152)
    tracker,     \* ProgressTracker instance fields (_streaming_enabled, _streaming_events)
    lastOp,      \* name of the ledger operation executed by the last step
    args,        \* arguments of the dispatched job: the two documents
    pc,          \* position of the worker task / of the orchestrator graph
    wf,          \* MultiAgentInterviewState of the run in flight
    body,        \* _safe_execute: whether execution_func was invoked / result of the envelope
    result,      \* the dict returned by generate_technical_interview
    conns,       \* ConnectionManager.active_connections: task id -> set of websockets
    monitoring,  \* ConnectionManager.monitoring_tasks: task id -> absent / TRUE / FALSE
    wsock,       \* per websocket: position of its endpoint coroutine
    subs,        \* RedisEventSubscriber._subscriptions: task id -> handler task or None
    channels,    \* channels the shared pubsub object is subscribed to, by task id
    handlers,    \* _handle_channel_messages tasks that are alive: records [id, tid]
                 \* (a task is identified by the websocket whose call created it)
    unsubs,      \* deferred _unsubscribe_from_redis_events tasks: records [id, tid, pc]
    monitors,    \* monitor_task_progress task of each task id: its position and locals
    inbox,       \* per websocket: the last message its client received
    sent,        \* the last call of a send function made on its own: name, task id and
                 \* the connections whose send_text raised
    pub,         \* the worker's streaming side: the stream_manager the agents were built
                 \* with, StreamManager._sequence_counter, the events handed to
                 \* redis_client.publish, and whether an emission raised into a stage
    seq,         \* StreamManager instances used from several threads: each instance's
                 \* _sequence_counter and _sequence_lock, the ids handed out, and the
                 \* position of each thread inside emit_event_sync
    evaluation,  \* one call of QuestionEvaluationAgent._evaluate_question: the question,
                 \* the skills, what the text-generation call does, and what is returned
    api,         \* the request handler start_async_question_generation: its position
                 \* and the task id it has put on the job queue
    poll         \* per task id: the tick of monitor_task_progress in flight, followed
                 \* from one await to the next (the row it read, the send calls made
                 \* and to make, the iterator of the send loop that is suspended)

vars == <<ledger, tracker, lastOp, args, pc, wf, body, result, conns, monitoring, wsock,
          subs, channels, handlers, unsubs, monitors, inbox,
          sent, pub, poll, seq, api, evaluation>>

workerVars == <<args, pc, wf, result>>
\* everything but seq
seqFrame == <<ledger, tracker, lastOp, args, pc, wf, body, result, conns, monitoring, wsock,
              subs, channels, handlers, unsubs, monitors, inbox, sent, pub, poll, api,
              evaluation>>
connVars == <<conns, monitoring, wsock, subs, channels, handlers, unsubs, monitors, inbox,
          sent, poll, seq, api, evaluation>>

(***************************************************************************)
(* Bounds of the model.                                                    *)
(***************************************************************************)
MaxItems == 2        \* most skills / questions a stage may produce
MaxEvents == 2       \* most streaming events buffered by one tracker
WatchedStages == 1   \* stages run by the job that the serving process watches
MaxEmits == 2        \* most events one thread emits
MaxHistory == 3      \* longest AgentResult history given to _create_error_response

None == "None"
Min(a, b) == IF a < b THEN a ELSE b

(***************************************************************************)
(* Progress ledger: app/tasks/progress_tracker.py                          *)
(***************************************************************************)
\* result_data is NULL, or a JSON object: the orchestrator's response dict, or the
\* dict of buffered streaming events.
NoResult == [kind |-> "None", success |-> FALSE, formatted_report |-> 0,
             agent_performance |-> {}, streaming_events |-> 0,
             failed_agent |-> None, last_successful_agent |-> None,
             errors |-> <<>>, stage_reached |-> None, rubric_id |-> None]

\* No row for the task id yet.
NoRow == [exists |-> FALSE, status |-> None, progress |-> 0, current_step |-> None,
          result_data |-> NoResult, error_message |-> None, rubric_id |-> None]

\* The row the API commits before it enqueues the job (routes.py:743-763).
PendingRow == [exists |-> TRUE, status |-> "pending", progress |-> 0,
               current_step |-> "Initializing...",
               result_data |-> NoResult, error_message |-> None, rubric_id |-> None]

\* ProgressTracker.start_task: inserts a row; a duplicate key raises and is swallowed.
start_task(l) ==
    IF l.exists THEN l
    ELSE [exists |-> TRUE, status |-> "in_progress", progress |-> 0,
          current_step |-> "Initializing...",
          result_data |-> NoResult, error_message |-> None, rubric_id |-> None]

\* ProgressTracker.update_status_to_in_progress
update_status_to_in_progress(l) ==
    IF l.exists THEN [l EXCEPT !.status = "in_progress"] ELSE l

\* ProgressTracker.update_progress
update_progress(l, progress, current_step) ==
    IF l.exists
    THEN [l EXCEPT !.progress = Min(progress, 100),
                   !.current_step = current_step,
                   !.status = IF @ = "pending" THEN "in_progress" ELSE @]
    ELSE l

\* A complete_task that forgets to store the result.
complete_task_without_result(l, result_data, rubric_id) ==
    IF l.exists
    THEN [l EXCEPT !.status = "completed", !.progress = 100,
                   !.current_step = "Completed", !.rubric_id = rubric_id]
    ELSE l

\* ProgressTracker.complete_task
complete_task(l, result_data, rubric_id) ==
    IF l.exists
    THEN [l EXCEPT !.status = "completed", !.progress = 100,
                   !.current_step = "Completed", !.result_data = result_data,
                   !.rubric_id = rubric_id]
    ELSE l

\* A fail_task that records the message and leaves the status as it is.
fail_task_keeps_status(l, error_message) ==
    IF l.exists
    THEN [l EXCEPT !.current_step = "Failed", !.error_message = error_message]
    ELSE l

\* ProgressTracker.fail_task
fail_task(l, error_message) ==
    IF l.exists
    THEN [l EXCEPT !.status = "failed", !.current_step = "Failed",
                   !.error_message = error_message]
    ELSE l

\* ProgressTracker._update_streaming_data: a NULL result_data becomes a dict that
\* holds the buffered events; the assignment of a fresh dict is what the ORM flushes.
update_streaming_data(l, n_events) ==
    IF l.exists /\ l.result_data.kind = "None"
    THEN [l EXCEPT !.result_data = [NoResult EXCEPT !.kind = "streaming",
                                                    !.streaming_events = n_events]]
    ELSE l

\* QuestionGenerationProgressTracker.agent_steps / agent_mapping
AgentNames == <<"SkillExtractionAgent", "QuestionGenerationAgent",
                "QuestionEvaluationAgent", "ExpectedResponseAgent",
                "ReportAssemblyAgent">>
agent_steps == <<"Extracting Skills", "Generating Questions", "Evaluating Questions",
                 "Creating Guidance", "Finalizing Report">>
\* 1-based position of an agent name in agent_mapping, 0 when unknown.
agent_mapping(name) ==
    IF \E i \in 1..5 : AgentNames[i] = name
    THEN CHOOSE i \in 1..5 : AgentNames[i] = name
    ELSE 0

\* An update_agent_progress that counts only the agents before this one.
update_agent_progress_whole_agents(l, agent_name, progress_within_agent) ==
    LET k == agent_mapping(agent_name)
    IN  IF k # 0
        THEN update_progress(l, Min((k - 1) * 20, 100), agent_steps[k])
        ELSE l

\* QuestionGenerationProgressTracker.update_agent_progress
update_agent_progress(l, agent_name, progress_within_agent) ==
    LET k == agent_mapping(agent_name)
        overall_progress == ((k - 1) * 20) + ((progress_within_agent * 20) \div 100)
    IN  IF k # 0
        THEN update_progress(l, Min(overall_progress, 100), agent_steps[k])
        ELSE l

(***************************************************************************)
(* Workflow state and agents: app/services/qgen/models/schemas.py,         *)
(* app/services/qgen/agents/*.py                                           *)
(***************************************************************************)
\* ProcessingStage (schemas.py:29-37)
ProcessingStage == {"initialized", "skills_extracted", "questions_generated",
                    "questions_evaluated", "responses_generated", "report_assembled",
                    "completed", "error"}

\* create_initial_state (schemas.py:233-256); lists are modelled by their lengths.
create_initial_state ==
    [processing_stage |-> "initialized", current_agent |-> None,
     extracted_skills |-> 0, generated_questions |-> 0, approved_questions |-> 0,
     expected_responses |-> 0, final_evaluation |-> FALSE,
     agent_results |-> <<>>, messages |-> <<>>, errors |-> <<>>]

\* What a stage body meets outside the workflow state: whether a call escapes with an
\* exception, and how many items the text-generation service (or the fallback) yields.
BodyOutcomes == [raises : BOOLEAN, n : 0..MaxItems]

\* A _record_result that inserts the new result at the head of the list.
record_result_prepend(st, agent_name, success, error_message) ==
    [st EXCEPT !.agent_results = <<[agent_name |-> agent_name, success |-> success,
                                    error_message |-> error_message]>> \o @,
               !.current_agent = IF success THEN agent_name ELSE None]

\* BaseAgent._record_result
record_result(st, agent_name, success, error_message) ==
    [st EXCEPT !.agent_results = Append(@, [agent_name |-> agent_name,
                                            success |-> success,
                                            error_message |-> error_message]),
               !.current_agent = IF success THEN agent_name ELSE None]

\* The except branch shared by the five execute methods: the message is appended to
\* errors, the stage becomes ERROR and a failed AgentResult is recorded.
execute_failed(st, agent_name, error_msg) ==
    record_result([st EXCEPT !.errors = Append(@, error_msg),
                             !.processing_stage = "error"],
                  agent_name, FALSE, error_msg)

\* SkillExtractionAgent.execute
SkillExtractionAgent_execute(st, out) ==
    IF out.raises
    THEN execute_failed(st, "SkillExtractionAgent", "Skill extraction failed")
    ELSE LET s1 == [st EXCEPT !.extracted_skills = out.n,
                              !.processing_stage = "skills_extracted"]
             s2 == record_result(s1, "SkillExtractionAgent", TRUE, None)
         IN  [s2 EXCEPT !.messages = Append(@, <<"Skill extraction completed">>)]

\* QuestionGenerationAgent.execute
QuestionGenerationAgent_execute(st, out) ==
    IF st.extracted_skills = 0 \/ out.raises
    THEN execute_failed(st, "QuestionGenerationAgent", "Question generation failed")
    ELSE LET s1 == [st EXCEPT !.generated_questions = out.n,
                              !.processing_stage = "questions_generated"]
             s2 == record_result(s1, "QuestionGenerationAgent", TRUE, None)
         IN  [s2 EXCEPT !.messages = Append(@, <<"Question generation completed">>)]

\* QuestionEvaluationAgent.execute: the approved questions are those of the generated
\* ones whose evaluation says approved.
QuestionEvaluationAgent_execute(st, out) ==
    IF st.generated_questions = 0 \/ out.raises
    THEN execute_failed(st, "QuestionEvaluationAgent", "Question evaluation failed")
    ELSE LET s1 == [st EXCEPT !.approved_questions = Min(out.n, st.generated_questions),
                              !.processing_stage = "questions_evaluated"]
             s2 == record_result(s1, "QuestionEvaluationAgent", TRUE, None)
         IN  [s2 EXCEPT !.messages = Append(@, <<"Question evaluation completed">>)]

\* ExpectedResponseAgent.execute: one expected response per approved question.
ExpectedResponseAgent_execute(st, out) ==
    IF st.approved_questions = 0 \/ out.raises
    THEN execute_failed(st, "ExpectedResponseAgent", "Expected response generation failed")
    ELSE LET s1 == [st EXCEPT !.expected_responses = st.approved_questions,
                              !.processing_stage = "responses_generated"]
             s2 == record_result(s1, "ExpectedResponseAgent", TRUE, None)
         IN  [s2 EXCEPT !.messages = Append(@, <<"Expected response generation completed">>)]

\* ReportAssemblyAgent.execute: REPORT_ASSEMBLED when the result is recorded, COMPLETED
\* as the last statement of the try block.
ReportAssemblyAgent_execute(st, out) ==
    IF st.approved_questions = 0 \/ st.expected_responses = 0 \/ out.raises
    THEN execute_failed(st, "ReportAssemblyAgent", "Report assembly failed")
    ELSE LET s1 == [st EXCEPT !.final_evaluation = TRUE,
                              !.processing_stage = "report_assembled"]
             s2 == record_result(s1, "ReportAssemblyAgent", TRUE, None)
             s3 == [s2 EXCEPT !.messages = Append(@, <<"Report assembly completed">>)]
         IN  [s3 EXCEPT !.processing_stage = "completed"]

\* The execute method of the agent behind graph node i.
agent_execute(i, st, out) ==
    CASE i = 1 -> SkillExtractionAgent_execute(st, out)
      [] i = 2 -> QuestionGenerationAgent_execute(st, out)
      [] i = 3 -> QuestionEvaluationAgent_execute(st, out)
      [] i = 4 -> ExpectedResponseAgent_execute(st, out)
      [] i = 5 -> ReportAssemblyAgent_execute(st, out)

(***************************************************************************)
(* Streaming from the stages: BaseAgent.stream_*_sync, StreamManager and   *)
(* RedisEventPublisher (app/services/qgen/streaming/).                     *)
(***************************************************************************)
\* What can go wrong while one event is emitted.
PublishFaults == {"none", "connection_error", "timeout", "serialization_error",
                  "callback_raises"}

\* RedisEventPublisher.publish_event: json.dumps, then one call of
\* redis_client.publish on the channel of the task id.  A serialization error is
\* raised before the client is called; a connection error or a timeout comes out of
\* the one call made.  Every exception is caught and False is returned.
publish_event(p, ev, fault) ==
    CASE fault = "serialization_error" -> [pub |-> p, ok |-> FALSE]
      [] fault \in {"connection_error", "timeout"} ->
            [pub |-> [p EXCEPT !.handed = Append(@, [ev EXCEPT !.delivered = FALSE])],
             ok |-> FALSE]
      [] OTHER -> [pub |-> [p EXCEPT !.handed = Append(@, ev)], ok |-> TRUE]

\* An emit_event_sync whose callback loop has no try/except.
emit_event_sync_unguarded(p, agent_name, event_type, fault) ==
    LET id == p.sequence_counter + 1
        p1 == [p EXCEPT !.sequence_counter = id]
        ev == [id |-> id, task_id |-> "t1", agent_name |-> agent_name,
               event_type |-> event_type, delivered |-> TRUE]
    IN  IF fault = "callback_raises"
        THEN [p1 EXCEPT !.raised = TRUE]
        ELSE publish_event(p1, ev, fault).pub

\* StreamManager.emit_event_sync: the event gets the next sequence id, the local
\* callbacks run (an exception of a callback is logged), and the event is published
\* once; nothing is raised to the caller.
emit_event_sync(p, agent_name, event_type, fault) ==
    LET id == p.sequence_counter + 1
        p1 == [p EXCEPT !.sequence_counter = id]
        ev == [id |-> id, task_id |-> "t1", agent_name |-> agent_name,
               event_type |-> event_type, delivered |-> TRUE]
    IN  publish_event(p1, ev, IF fault = "callback_raises" THEN "none" ELSE fault).pub

\* The event types an execute call emits, in order, when its agent has a stream
\* manager.  Only SkillExtractionAgent and QuestionEvaluationAgent call the
\* stream_*_sync helpers; both emit the start event before their try block.
Repeat(e, n) == [k \in 1..n |-> e]
EmitsOf(i, st, out) ==
    CASE i = 1 ->
           <<"agent_start", "agent_thinking">>
           \o (IF out.raises THEN <<>>
               ELSE <<"agent_thinking">> \o Repeat("skill_found", out.n))
      [] i = 3 ->
           <<"agent_start">>
           \o (IF st.generated_questions = 0 THEN <<>>
               ELSE <<"agent_thinking">>
                    \o (IF out.raises THEN <<>>
                        ELSE Repeat("agent_thinking", st.generated_questions)
                             \o Repeat("evaluation_result", st.generated_questions)))
      [] OTHER -> <<>>

\* The emissions of one execute call, the k-th of them meeting the fault; an
\* emission that raises ends the sequence.
RECURSIVE emit_all(_, _, _, _, _, _)
emit_all(p, agent_name, events, j, fault, k) ==
    IF j > Len(events) \/ p.raised THEN p
    ELSE emit_all(emit_event_sync(p, agent_name, events[j],
                                  IF j = k THEN fault ELSE "none"),
                  agent_name, events, j + 1, fault, k)

\* execute of agent i with its streaming calls.  An exception out of the start
\* emission leaves execute before its try block; one out of a later emission is
\* caught by the except branch of execute like any other failure of the body.
agent_execute_streaming(i, st, out, p, fault, k) ==
    IF p.stream_manager = None
    THEN [state |-> agent_execute(i, st, out), pub |-> p, raised |-> FALSE]
    ELSE LET p2 == emit_all(p, AgentNames[i], EmitsOf(i, st, out), 1, fault, k)
         IN  IF ~p2.raised
             THEN [state |-> agent_execute(i, st, out), pub |-> p2, raised |-> FALSE]
             ELSE IF p2.sequence_counter = p.sequence_counter + 1
             THEN [state |-> st, pub |-> p2, raised |-> TRUE]
             ELSE [state |-> agent_execute(i, st, [out EXCEPT !.raises = TRUE]),
                   pub |-> p2, raised |-> FALSE]

(***************************************************************************)
(* Orchestrator: app/services/qgen/orchestrator/multi_agent_system.py      *)
(***************************************************************************)
\* Graph nodes added by _build_workflow, in the order of its edges.
NodeNames == <<"extract_skills", "generate_questions", "evaluate_questions",
               "generate_responses", "assemble_report">>

route_from_skill_extraction(st) ==
    IF st.processing_stage = "error" THEN "error"
    ELSE IF st.processing_stage = "skills_extracted" THEN "generate_questions"
    ELSE "error"

\* A router that goes on to the evaluation whatever the stage left behind.
route_from_question_generation_ignoring_error(st) == "evaluate_questions"

route_from_question_generation(st) ==
    IF st.processing_stage = "error" THEN "error"
    ELSE IF st.processing_stage = "questions_generated" THEN "evaluate_questions"
    ELSE "error"

route_from_question_evaluation(st) ==
    IF st.processing_stage = "error" THEN "error"
    ELSE IF st.processing_stage = "questions_evaluated" THEN "generate_responses"
    ELSE "error"

route_from_response_generation(st) ==
    IF st.processing_stage = "error" THEN "error"
    ELSE IF st.processing_stage = "responses_generated" THEN "assemble_report"
    ELSE "error"

\* A router that takes REPORT_ASSEMBLED, not COMPLETED, for the last stage's marker.
route_from_report_assembly_wrong_marker(st) ==
    IF st.processing_stage = "error" THEN "error"
    ELSE IF st.processing_stage = "report_assembled" THEN "complete"
    ELSE "error"

route_from_report_assembly(st) ==
    IF st.processing_stage = "error" THEN "error"
    ELSE IF st.processing_stage = "completed" THEN "complete"
    ELSE "error"

\* The router attached to node i by add_conditional_edges.
route_from(i, st) ==
    CASE i = 1 -> route_from_skill_extraction(st)
      [] i = 2 -> route_from_question_generation(st)
      [] i = 3 -> route_from_question_evaluation(st)
      [] i = 4 -> route_from_response_generation(st)
      [] i = 5 -> route_from_report_assembly(st)

\* The edge maps of add_conditional_edges: a router's answer to the next graph node.
edge_target(r) ==
    IF r = "error" THEN "handle_error" ELSE IF r = "complete" THEN "END" ELSE r

\* MultiAgentTechnicalInterviewSystem._handle_error: one message that lists every
\* entry of errors, and the stage ERROR.
handle_error(st) ==
    [st EXCEPT !.messages = Append(@, <<"Multi-agent interview generation failed">> \o st.errors),
               !.processing_stage = "error"]

\* format_final_report: the report as its number of lines; the header alone has five.
format_final_report(st) == 5 + st.approved_questions

\* _create_success_response
create_success_response(st) ==
    [NoResult EXCEPT !.kind = "response", !.success = TRUE,
                     !.formatted_report = format_final_report(st),
                     !.agent_performance =
                         {st.agent_results[k].agent_name : k \in 1..Len(st.agent_results)}]

\* A scan of agent_results that does not stop at the first failure: it reports the
\* last failed and the last successful result of the whole history.
scan_results_to_end(rs, k, last_ok) ==
    LET oks == {j \in k..Len(rs) : rs[j].success}
        bad == {j \in k..Len(rs) : ~rs[j].success}
        last(S) == CHOOSE j \in S : \A i \in S : i <= j
    IN  [last_successful_agent |-> IF oks = {} THEN last_ok ELSE rs[last(oks)].agent_name,
         failed_agent |-> IF bad = {} THEN None ELSE rs[last(bad)].agent_name]

\* The loop of _create_error_response over agent_results: stops at the first failure.
RECURSIVE scan_results(_, _, _)
scan_results(rs, k, last_ok) ==
    IF k > Len(rs) THEN [last_successful_agent |-> last_ok, failed_agent |-> None]
    ELSE IF rs[k].success THEN scan_results(rs, k + 1, rs[k].agent_name)
    ELSE [last_successful_agent |-> last_ok, failed_agent |-> rs[k].agent_name]

\* _create_error_response
create_error_response(st) ==
    LET found == scan_results(st.agent_results, 1, None)
    IN  [NoResult EXCEPT !.kind = "response", !.success = FALSE,
                         !.stage_reached = st.processing_stage,
                         !.last_successful_agent = found.last_successful_agent,
                         !.failed_agent = found.failed_agent,
                         !.errors = st.errors]

\* generate_technical_interview, after the graph returned its final state.
process_results(st) ==
    IF st.processing_stage = "completed"
    THEN create_success_response(st)
    ELSE create_error_response(st)

\* generate_technical_interview, when create_initial_state or the graph raised.
system_error_response ==
    [NoResult EXCEPT !.kind = "response", !.success = FALSE,
                     !.errors = <<"System error during multi-agent workflow">>,
                     !.stage_reached = "initialization"]

(***************************************************************************)
(* Serving side at rest (no websocket ever attached): used by the          *)
(* specifications that do not exercise the fan-out manager.                *)
(***************************************************************************)
TaskIds == {"t1", "t2"}
Sockets == {"a", "b", "c", "d", "e"}
\* The task id in the URL of each websocket endpoint invocation.
task_of(w) == IF w = "c" THEN "t2" ELSE "t1"

\* A message as the client sees it: its "type", the "task_id" of its envelope, the
\* task id the forwarded event was published for (stream events), and the progress
\* it reports (progress_update, task_completed).
NoMessage == [type |-> "none", task_id |-> None, origin |-> None, progress |-> -1]

\* monitor_task_progress: not started, or its locals on entry (lines 226-235).
NoMonitor == [pc |-> "none", last_progress |-> -1, last_status |-> "", attempts |-> 0]

\* attempts: the send_text calls it made; raised: an exception left the function.
NoSend == [fn |-> "none", task_id |-> None, failed |-> {}, attempts |-> 0,
           raised |-> FALSE]

\* QuestionEvaluation (schemas.py:78-86) and the number of text-generation calls
\* made to get it.
NoQuestionEvaluation ==
    [technical_depth_score |-> 0, relevance_score |-> 0, difficulty_appropriateness |-> 0,
     non_generic_score |-> 0, overall_quality |-> 0, approved |-> FALSE,
     feedback |-> None, llm_calls |-> 0]
\* _evaluate_question has not been called.
NoEvaluation ==
    [question |-> [difficulty_level |-> 1, has_keyword |-> FALSE, names_skill |-> FALSE,
                   mentions_context |-> FALSE],
     skill |-> [found |-> FALSE, confidence_score |-> 1],
     llm |-> [raises |-> FALSE, evaluation |-> NoQuestionEvaluation],
     out |-> NoQuestionEvaluation]

\* No request is being handled and no job is queued.
NoApi == [pc |-> "none", queued |-> None]

\* StreamManager instances and the threads that emit on them.
Instances == {"m1", "m2"}
Threads == {"T1", "T2"}
\* StreamManager.__init__ for every instance; no thread is inside emit_event_sync.
\* issued: the ids returned by _get_next_sequence_id, in the order of return.
NoSeq == [counter |-> [i \in Instances |-> 0],
          lock |-> [i \in Instances |-> None],
          issued |-> [i \in Instances |-> <<>>],
          th |-> [x \in Threads |-> [pc |-> "idle", on |-> None, value |-> 0,
                                     emitted |-> 0]]]

\* No tick of the polling loop has read the row yet.  queue: the send functions the
\* tick still has to call (its head is the one suspended in send_text(w)); calls:
\* those it has called; used, members, visited: len() and content of the set when
\* the for loop took its iterator, and the connections it has yielded; failed:
\* disconnected_connections; leave: the tick ends in break; raised: an exception
\* reached the except clause of monitor_task_progress.
NoPoll == [queue |-> <<>>, calls |-> <<>>, w |-> None, used |-> 0, members |-> {},
           visited |-> {}, failed |-> {}, progress |-> -1, status |-> "",
           leave |-> FALSE, raised |-> FALSE]

\* No connection yet; clients: the websockets that will call the endpoint.
ConnInitWith(clients) ==
    /\ conns = [t \in TaskIds |-> [present |-> FALSE, set |-> {}]]
    /\ monitoring = [t \in TaskIds |-> "absent"]
    /\ wsock = [w \in Sockets |-> IF w \in clients THEN "closed" ELSE "unused"]
    /\ subs = [t \in TaskIds |-> None]
    /\ channels = {}
    /\ handlers = {}
    /\ unsubs = {}
    /\ monitors = [t \in TaskIds |-> NoMonitor]
    /\ inbox = [w \in Sockets |-> NoMessage]
    /\ sent = NoSend
    /\ poll = [t \in TaskIds |-> NoPoll]
    /\ seq = NoSeq
    /\ api = NoApi
    /\ evaluation = NoEvaluation

ConnInit == ConnInitWith({"a", "b", "c"})

TrackerInit == tracker = [streaming_enabled |-> FALSE, streaming_events |-> 0]
\* No StreamManager has been built and nothing was handed to the broker client.
NoPub == [stream_manager |-> None, sequence_counter |-> 0, handed |-> <<>>,
          raised |-> FALSE, out |-> None]
PubInit == pub = NoPub
BodyInit == body = [invoked |-> FALSE, returned |-> FALSE, raised |-> FALSE]
At(a, i) == [at |-> a, i |-> i]

(***************************************************************************)
(* Worker task: generate_interview_questions_async                         *)
(* (app/tasks/question_generation_tasks.py:59-255) driving                 *)
(* ProgressTrackingMultiAgentSystem.                                       *)
(***************************************************************************)
\* A document argument: no id given, id of no stored document, or a document whose
\* extracted_text is empty, only whitespace, or real text.
DocCases == {"absent", "missing", "empty", "blank", "text"}
\* `not text` in the worker, `bool(text.strip())` in create_initial_state.
Falsy(d) == d \in {"absent", "empty"}
HasText(d) == d = "text"

WorkerInit ==
    /\ args \in [jd : DocCases, resume : DocCases]
    /\ pc = At("w_start", 0)
    /\ wf = create_initial_state
    /\ result = NoResult

\* lines 80-85: the tracker is built and the row is moved to in_progress.
WorkerStart ==
    /\ pc.at = "w_start"
    /\ ledger' = update_status_to_in_progress(ledger)
    /\ lastOp' = "update_status_to_in_progress"
    /\ pc' = At("w_progress", 0)
    /\ UNCHANGED <<tracker, args, wf, body, result, pub, connVars>>

\* lines 90-93
WorkerInitialProgress ==
    /\ pc.at = "w_progress"
    /\ ledger' = update_progress(ledger, 5, "Starting question generation...")
    /\ lastOp' = "update_progress"
    /\ pc' = At("w_documents", 0)
    /\ UNCHANGED <<tracker, args, wf, body, result, pub, connVars>>

\* lines 101-136 and the except handler 221-252: a document that is not found fails
\* the task and returns; two empty texts raise ValueError, which the handler turns
\* into fail_task.
WorkerLoadDocuments ==
    /\ pc.at = "w_documents"
    /\ IF args.jd = "missing"
       THEN /\ ledger' = fail_task(ledger, "JD document not found")
            /\ lastOp' = "fail_task"
            /\ pc' = At("w_done", 0)
       ELSE IF args.resume = "missing"
       THEN /\ ledger' = fail_task(ledger, "Resume document not found")
            /\ lastOp' = "fail_task"
            /\ pc' = At("w_done", 0)
       ELSE IF Falsy(args.resume) /\ Falsy(args.jd)
       THEN /\ ledger' = fail_task(ledger, "Error in async question generation")
            /\ lastOp' = "fail_task"
            /\ pc' = At("w_done", 0)
       ELSE /\ pc' = At("w_create", 0)
            /\ lastOp' = "none"
            /\ UNCHANGED ledger
    /\ UNCHANGED <<tracker, args, wf, body, result, pub, connVars>>

\* lines 153-157: _create_interview_system_with_progress_tracking builds the five
\* agents (LLMFactory.create_llm raises when the provider is unhealthy) and patches
\* them; an exception reaches the handler at 221.
WorkerCreateSystem ==
    /\ pc.at = "w_create"
    /\ \E ok \in BOOLEAN :
         IF ok
         THEN /\ pc' = At("o_init", 0)
              /\ lastOp' = "none"
              /\ UNCHANGED ledger
         ELSE /\ ledger' = fail_task(ledger, "Error in async question generation")
              /\ lastOp' = "fail_task"
              /\ pc' = At("w_done", 0)
    \* _create_interview_system_with_progress_patching(llm_config, progress_tracker):
    \* the stream_manager parameter keeps its default.
    /\ pub' = [pub EXCEPT !.stream_manager = None]
    /\ UNCHANGED <<tracker, args, wf, body, result, connVars>>

\* generate_technical_interview, lines 250-269 and 285-296: create_initial_state
\* raises when neither text has content after strip(); the method then returns the
\* system-error dict.
OrchCreateInitialState ==
    /\ pc.at = "o_init"
    /\ IF HasText(args.resume) \/ HasText(args.jd)
       THEN /\ wf' = [create_initial_state EXCEPT !.messages = <<<<"Generate evaluation">>>>]
            /\ pc' = At("stage_begin", 1)
            /\ UNCHANGED result
       ELSE /\ result' = system_error_response
            /\ pc' = At("w_store", 0)
            /\ UNCHANGED wf
    /\ lastOp' = "none"
    /\ UNCHANGED <<ledger, tracker, args, body, pub, connVars>>

\* wrapped_execute, lines 486-488: the ledger write before the agent runs.
StageBegin ==
    /\ pc.at = "stage_begin"
    /\ ledger' = update_agent_progress(ledger, AgentNames[pc.i], 0)
    /\ lastOp' = "update_agent_progress"
    /\ pc' = At("stage_body", pc.i)
    /\ UNCHANGED <<tracker, args, wf, body, result, pub, connVars>>

\* wrapped_execute, line 491: the agent's own execute.
StageBody ==
    /\ pc.at = "stage_body"
    /\ \E out \in BodyOutcomes :
          LET r == agent_execute_streaming(pc.i, wf, out, pub, "none", 0)
          IN  /\ wf' = r.state
              /\ pub' = r.pub
    /\ lastOp' = "none"
    /\ pc' = At("stage_end", pc.i)
    /\ UNCHANGED <<ledger, tracker, args, body, result, connVars>>

\* wrapped_execute, lines 492-494: the ledger write after the agent returned.
StageEnd ==
    /\ pc.at = "stage_end"
    /\ ledger' = update_agent_progress(ledger, AgentNames[pc.i], 100)
    /\ lastOp' = "update_agent_progress"
    /\ pc' = At("route", pc.i)
    /\ UNCHANGED <<tracker, args, wf, body, result, pub, connVars>>

\* The conditional edge out of node pc.i.
Route ==
    /\ pc.at = "route"
    /\ LET target == edge_target(route_from(pc.i, wf))
       IN  pc' = IF target = "handle_error" THEN At("handle_error", pc.i)
                 ELSE IF target = "END" THEN At("o_finish", pc.i)
                 ELSE At("stage_begin", CHOOSE k \in 1..5 : NodeNames[k] = target)
    /\ lastOp' = "none"
    /\ UNCHANGED <<ledger, tracker, args, wf, body, result, pub, connVars>>

\* The handle_error node, whose only edge leads to END.
HandleError ==
    /\ pc.at = "handle_error"
    /\ wf' = handle_error(wf)
    /\ pc' = At("o_finish", pc.i)
    /\ lastOp' = "none"
    /\ UNCHANGED <<ledger, tracker, args, body, result, pub, connVars>>

\* generate_technical_interview, lines 271-283.
OrchFinish ==
    /\ pc.at = "o_finish"
    /\ result' = process_results(wf)
    /\ pc' = At("w_store", 0)
    /\ lastOp' = "none"
    /\ UNCHANGED <<ledger, tracker, args, wf, body, pub, connVars>>

\* lines 169-192: the rubric is stored for a successful result; a failure to store
\* it is logged and leaves rubric_id None.
WorkerStoreRubric ==
    /\ pc.at = "w_store"
    /\ IF result.success
       THEN \E stored \in BOOLEAN :
              result' = IF stored THEN [result EXCEPT !.rubric_id = "rubric"] ELSE result
       ELSE UNCHANGED result
    /\ pc' = At("w_complete", 0)
    /\ lastOp' = "none"
    /\ UNCHANGED <<ledger, tracker, args, wf, body, pub, connVars>>

\* lines 194-198: complete_task is called with whatever result came back.
WorkerCompleteTask ==
    /\ pc.at = "w_complete"
    /\ ledger' = complete_task(ledger, result, result.rubric_id)
    /\ lastOp' = "complete_task"
    /\ pc' = At("w_notify", 0)
    /\ UNCHANGED <<tracker, args, wf, body, result, pub, connVars>>

\* A notification step whose failure is not caught where it happens: it reaches the
\* except handler of the task, which calls fail_task.
WorkerNotifyUnguarded ==
    /\ pc.at = "w_notify"
    /\ pc' = At("w_done", 0)
    /\ \E queued \in BOOLEAN :
          IF queued \/ ~result.success
          THEN lastOp' = "none" /\ UNCHANGED ledger
          ELSE /\ ledger' = fail_task(ledger, "Error in async question generation")
               /\ lastOp' = "fail_task"
    /\ UNCHANGED <<tracker, args, wf, body, result, pub, connVars>>

\* lines 200-219: the completion e-mail is queued for a successful result (a failure
\* to queue it is logged), and the result is returned.
WorkerNotify ==
    /\ pc.at = "w_notify"
    /\ pc' = At("w_done", 0)
    /\ lastOp' = "none"
    /\ UNCHANGED <<ledger, tracker, args, wf, body, result, pub, connVars>>

WorkerNext ==
    \/ WorkerStart
    \/ WorkerInitialProgress
    \/ WorkerLoadDocuments
    \/ WorkerCreateSystem
    \/ OrchCreateInitialState
    \/ StageBegin
    \/ StageBody
    \/ StageEnd
    \/ Route
    \/ HandleError
    \/ OrchFinish
    \/ WorkerStoreRubric
    \/ WorkerCompleteTask
    \/ WorkerNotify

Init ==
    /\ ledger = PendingRow
    /\ lastOp = "none"
    /\ TrackerInit
    /\ BodyInit
    /\ PubInit
    /\ WorkerInit
    /\ ConnInit

Next == WorkerNext

\* One worker run on a task id whose row the API has committed.
Spec == Init /\ [][Next]_vars

\* The same run in a worker process that keeps executing: the task body is
\* sequential code, so a step that can be taken is taken.
SpecRun == Init /\ [][Next]_vars /\ WF_vars(Next)

(***************************************************************************)
(* The same worker run on a database whose commits may fail.               *)
(***************************************************************************)
\* The positions of the worker at which the next statement is a ledger write.
WritesLedgerAt(p) ==
    \/ p.at \in {"w_start", "w_progress", "stage_begin", "stage_end", "w_complete"}
    \/ /\ p.at = "w_documents"
       /\ \/ args.jd = "missing"
          \/ args.resume = "missing"
          \/ Falsy(args.resume) /\ Falsy(args.jd)

\* Where the worker stands after the write made at p has returned.
WriteSuccessor(p) ==
    CASE p.at = "w_start"     -> At("w_progress", 0)
      [] p.at = "w_progress"  -> At("w_documents", 0)
      [] p.at = "stage_begin" -> At("stage_body", p.i)
      [] p.at = "stage_end"   -> At("route", p.i)
      [] p.at = "w_complete"  -> At("w_notify", 0)
      [] OTHER                -> At("w_done", 0)

\* The write at the current position fails: query or commit raises inside the
\* tracker method, whose except clause logs and rolls back, so the row keeps its
\* value.  update_progress, complete_task and fail_task return normally
\* (progress_tracker.py:106-109, 134-136, 155-159); update_status_to_in_progress
\* re-raises (line 79), which takes the worker to its except handler (lines
\* 221-252): fail_task is tried, itself failing or not, and the error dict is
\* returned.
WriteFails ==
    /\ WritesLedgerAt(pc)
    /\ lastOp' = "write_failed"
    /\ IF pc.at = "w_start"
       THEN /\ pc' = At("w_done", 0)
            /\ \E recovered \in BOOLEAN :
                  ledger' = IF recovered
                            THEN fail_task(ledger, "Error in async question generation")
                            ELSE ledger
       ELSE /\ pc' = WriteSuccessor(pc)
            /\ UNCHANGED ledger
    /\ UNCHANGED <<tracker, args, wf, body, result, pub, connVars>>

FaultyNext == WorkerNext \/ WriteFails

SpecFaulty == Init /\ [][FaultyNext]_vars

(***************************************************************************)
(* The ProgressTracker interface called in any order on one task id        *)
(* (app/tasks/progress_tracker.py, question_generation_tasks.py:31-57).    *)
(***************************************************************************)
ProgressInputs == {0, 5, 40, 100, 120}
PercentInputs == {0, 50, 100}
AgentNameInputs == {AgentNames[i] : i \in 1..5} \cup {"UnknownAgent"}
\* A state in which every stage produced one item, and the responses a worker can
\* hand to complete_task.
FullRun ==
    LET o == [raises |-> FALSE, n |-> 1]
    IN  agent_execute(5, agent_execute(4, agent_execute(3, agent_execute(2,
            agent_execute(1, create_initial_state, o), o), o), o), o)
ResultInputs == {process_results(FullRun), system_error_response}

LedgerApiInit ==
    /\ ledger \in {NoRow, PendingRow}
    /\ lastOp = "none"
    /\ TrackerInit
    /\ BodyInit
    /\ PubInit
    /\ args = [jd |-> "text", resume |-> "text"]
    /\ pc = At("api", 0)
    /\ wf = create_initial_state
    /\ result = NoResult
    /\ ConnInit

TrackerStartTask ==
    /\ ledger' = start_task(ledger)
    /\ lastOp' = "start_task"
    /\ UNCHANGED <<tracker, workerVars, body, pub, connVars>>

TrackerUpdateProgress ==
    /\ \E p \in ProgressInputs : ledger' = update_progress(ledger, p, "Working")
    /\ lastOp' = "update_progress"
    /\ UNCHANGED <<tracker, workerVars, body, pub, connVars>>

TrackerUpdateAgentProgress ==
    /\ \E a \in AgentNameInputs, q \in PercentInputs :
         ledger' = update_agent_progress(ledger, a, q)
    /\ lastOp' = "update_agent_progress"
    /\ UNCHANGED <<tracker, workerVars, body, pub, connVars>>

TrackerCompleteTask ==
    /\ \E r \in ResultInputs, stored \in BOOLEAN :
         ledger' = complete_task(ledger, r, IF stored THEN "rubric" ELSE None)
    /\ lastOp' = "complete_task"
    /\ UNCHANGED <<tracker, workerVars, body, pub, connVars>>

TrackerFailTask ==
    /\ ledger' = fail_task(ledger, "Error in async question generation")
    /\ lastOp' = "fail_task"
    /\ UNCHANGED <<tracker, workerVars, body, pub, connVars>>

\* ProgressTracker.enable_streaming
TrackerEnableStreaming ==
    /\ tracker' = [tracker EXCEPT !.streaming_enabled = TRUE]
    /\ lastOp' = "enable_streaming"
    /\ UNCHANGED <<ledger, workerVars, body, pub, connVars>>

\* ProgressTracker.add_streaming_event: nothing unless streaming is enabled; else the
\* event is buffered and _update_streaming_data writes the buffer to the row.
TrackerAddStreamingEvent ==
    /\ tracker.streaming_events < MaxEvents
    /\ IF tracker.streaming_enabled
       THEN /\ tracker' = [tracker EXCEPT !.streaming_events = @ + 1]
            /\ ledger' = update_streaming_data(ledger, tracker.streaming_events + 1)
       ELSE UNCHANGED <<tracker, ledger>>
    /\ lastOp' = "add_streaming_event"
    /\ UNCHANGED <<workerVars, body, pub, connVars>>

\* ProgressTracker.update_progress_with_stream: update_progress, then the streaming
\* data (when given) is merged into result_data, a NULL result_data becoming a dict.
TrackerUpdateProgressWithStream ==
    /\ \E p \in ProgressInputs, streaming_data \in BOOLEAN :
         LET l1 == update_progress(ledger, p, "Working")
         IN  ledger' = IF streaming_data THEN update_streaming_data(l1, 0) ELSE l1
    /\ lastOp' = "update_progress_with_stream"
    /\ UNCHANGED <<tracker, workerVars, body, pub, connVars>>

LedgerApiNext ==
    \/ TrackerStartTask
    \/ TrackerUpdateProgress
    \/ TrackerUpdateAgentProgress
    \/ TrackerCompleteTask
    \/ TrackerFailTask
    \/ TrackerEnableStreaming
    \/ TrackerAddStreamingEvent
    \/ TrackerUpdateProgressWithStream

\* Any sequence of tracker calls on one task id.
SpecLedger == LedgerApiInit /\ [][LedgerApiNext]_vars

(***************************************************************************)
(* The stage envelope applied once to a state a stage can receive:         *)
(* BaseAgent._safe_execute (base_agent.py:224-274) and the agents' own     *)
(* execute methods.                                                        *)
(***************************************************************************)
\* BaseAgent._log_error with a state: the message is appended to errors.
log_error(st, error) == [st EXCEPT !.errors = Append(@, error)]

\* BaseAgent._validate_input: the required fields that are absent or empty.
missing_fields(st, required_fields) == {f \in required_fields : st[f] = 0}

\* The success marker the body of stage i leaves in processing_stage.
StageMarker == <<"skills_extracted", "questions_generated", "questions_evaluated",
                 "responses_generated", "completed">>

\* BaseAgent._safe_execute around the body of stage i.  The result carries whether
\* execution_func was invoked.
safe_execute(st, i, required_fields, out) ==
    IF required_fields # {} /\ missing_fields(st, required_fields) # {}
    THEN LET s1 == log_error(st, "Missing required fields")
             s2 == log_error(s1, "execution failed: Input validation failed")
         IN  [state |-> record_result(s2, AgentNames[i], FALSE,
                                      "execution failed: Input validation failed"),
              invoked |-> FALSE, raised |-> TRUE]
    ELSE IF out.raises
    THEN [state |-> record_result(log_error(st, "execution failed"),
                                  AgentNames[i], FALSE, "execution failed"),
          invoked |-> TRUE, raised |-> TRUE]
    ELSE [state |-> record_result([st EXCEPT !.processing_stage = StageMarker[i]],
                                  AgentNames[i], TRUE, None),
          invoked |-> TRUE, raised |-> FALSE]

\* The states a stage can be handed: every state a run of successful stages yields.
RECURSIVE StatesAfter(_)
StatesAfter(k) ==
    IF k = 0 THEN {create_initial_state}
    ELSE {agent_execute(k, s, [raises |-> FALSE, n |-> m]) :
             s \in {t \in StatesAfter(k - 1) : t.processing_stage # "error"},
             m \in 0..MaxItems}
StageInputs == UNION {{s \in StatesAfter(k) : s.processing_stage # "error"} : k \in 0..4}

RequiredFieldInputs == {{}, {"extracted_skills"}, {"generated_questions"},
                        {"approved_questions", "expected_responses"}}

EnvelopeInit ==
    /\ ledger = PendingRow
    /\ lastOp = "none"
    /\ TrackerInit
    /\ BodyInit
    /\ PubInit
    /\ args = [jd |-> "text", resume |-> "text"]
    /\ pc = At("envelope", 0)
    /\ wf \in StageInputs
    /\ result = NoResult
    /\ ConnInit

\* One call of _safe_execute.
EnvelopeSafeExecute ==
    /\ pc.at = "envelope"
    /\ \E i \in 1..5, required_fields \in RequiredFieldInputs, out \in BodyOutcomes :
         LET r == safe_execute(wf, i, required_fields, out)
         IN  /\ wf' = r.state
             /\ body' = [invoked |-> r.invoked, returned |-> TRUE, raised |-> r.raised]
             /\ pc' = At("safe_execute_returned", i)
    /\ UNCHANGED <<ledger, tracker, lastOp, args, result, pub, connVars>>

\* One call of the execute method of agent i.
EnvelopeAgentExecute ==
    /\ pc.at = "envelope"
    /\ \E i \in 1..5, out \in BodyOutcomes :
         /\ wf' = agent_execute(i, wf, out)
         /\ body' = [invoked |-> TRUE, returned |-> TRUE,
                     raised |-> (wf'.processing_stage # StageMarker[i])]
         /\ pc' = At("execute_returned", i)
    /\ UNCHANGED <<ledger, tracker, lastOp, args, result, pub, connVars>>

EnvelopeNext == EnvelopeSafeExecute \/ EnvelopeAgentExecute

\* The envelope and the agents' execute, each applied to every state a stage can get.
SpecEnvelope == EnvelopeInit /\ [][EnvelopeNext]_vars

(***************************************************************************)
(* The execute method of an agent that was built with a StreamManager,     *)
(* applied once to every state a stage can get, one of its emissions       *)
(* meeting a fault.                                                        *)
(***************************************************************************)
PublishInit ==
    /\ ledger = PendingRow
    /\ lastOp = "none"
    /\ TrackerInit
    /\ BodyInit
    /\ pub = [NoPub EXCEPT !.stream_manager = "StreamManager"]
    /\ args = [jd |-> "text", resume |-> "text"]
    /\ pc = At("streaming", 0)
    /\ wf \in StageInputs
    /\ result = NoResult
    /\ ConnInit

StagePublishes ==
    /\ pc.at = "streaming"
    /\ \E i \in 1..5, out \in BodyOutcomes, fault \in PublishFaults :
       \E k \in 0..Len(EmitsOf(i, wf, out)) :
          LET r == agent_execute_streaming(i, wf, out, pub, fault, k)
          IN  /\ wf' = r.state
              /\ pub' = [r.pub EXCEPT !.out = out]
              /\ body' = [invoked |-> TRUE, returned |-> ~r.raised, raised |-> r.raised]
              /\ pc' = At("execute_streamed", i)
    /\ UNCHANGED <<ledger, tracker, lastOp, args, result, connVars>>

SpecPublish == PublishInit /\ [][StagePublishes]_vars

(***************************************************************************)
(* The stages and the text-generation service.                             *)
(***************************************************************************)
\* What self.llm.invoke does in one execute call: it returns a well-formed
\* structured output, raises, returns an object without the expected content, or
\* returns an empty list.
ServiceOutcomes == {"ok", "throws", "malformed", "empty"}
ServiceCallers == 1..4

\* What the body of stage i meets when the service behaves as svc and a well-formed
\* answer holds n items.
\*  - SkillExtractionAgent._extract_from_*: invoke and `response.skills` stand
\*    unguarded, so an exception escapes into execute.
\*  - QuestionGenerationAgent._generate_questions_for_category: try/except around
\*    invoke and `response.questions`; the fallback makes one question for each of
\*    the first skills of the category.
\*  - QuestionEvaluationAgent._evaluate_question: try/except around invoke and
\*    `response.evaluations[0]`; the fallback evaluation approves the question.
\*  - ExpectedResponseAgent._generate_expected_response: try/except around invoke
\*    and `response.responses[0]`; a fallback response is built.
body_outcome(i, st, svc, n) ==
    CASE svc = "ok" -> [raises |-> FALSE, n |-> n]
      [] i = 1 /\ svc \in {"throws", "malformed"} -> [raises |-> TRUE, n |-> 0]
      [] i = 1 /\ svc = "empty" -> [raises |-> FALSE, n |-> 0]
      [] i = 2 /\ svc \in {"throws", "malformed"} ->
            [raises |-> FALSE, n |-> st.extracted_skills]
      [] i = 2 /\ svc = "empty" -> [raises |-> FALSE, n |-> 0]
      [] i = 3 -> [raises |-> FALSE, n |-> st.generated_questions]
      [] OTHER -> [raises |-> FALSE, n |-> n]

\* execute of agent i when the service behaves as svc.
agent_execute_service(i, st, svc, n) == agent_execute(i, st, body_outcome(i, st, svc, n))

ServiceInit ==
    /\ ledger = PendingRow
    /\ lastOp = "none"
    /\ TrackerInit
    /\ BodyInit
    /\ PubInit
    /\ args = [jd |-> "text", resume |-> "text"]
    /\ pc = At("service", 0)
    /\ wf \in StageInputs
    /\ result = NoResult
    /\ ConnInit

\* One execute call of a stage that uses the service.
StageCallsService ==
    /\ pc.at = "service"
    /\ \E i \in ServiceCallers, svc \in ServiceOutcomes, n \in 0..MaxItems :
          /\ wf' = agent_execute_service(i, wf, svc, n)
          /\ body' = [invoked |-> TRUE, returned |-> TRUE, raised |-> FALSE,
                      service |-> svc]
          /\ pc' = At("service_returned", i)
    /\ UNCHANGED <<ledger, tracker, lastOp, args, result, pub, connVars>>

SpecService == ServiceInit /\ [][StageCallsService]_vars

(***************************************************************************)
(* Serving process: the websocket endpoint (main.py:93-116), the           *)
(* ConnectionManager (app/websocket_manager.py) and the                    *)
(* RedisEventSubscriber (app/services/streaming/redis_subscriber.py).      *)
(* One asyncio event loop: a step runs from one await to the next.  Redis  *)
(* is reachable and the singleton subscriber has been started.             *)
(***************************************************************************)
max_connections_per_task == 3
max_total_connections == 100
max_attempts == 10

\* The row crud.get_task_status returns for a task id: t1 is the task whose job
\* runs (or an id that names no task), t2 a task that is queued and that no worker
\* picks up.
RowOf(t) == IF t = "t1" THEN ledger ELSE PendingRow

RECURSIVE total_connections(_)
total_connections(ts) ==
    IF ts = {} THEN 0
    ELSE LET t == CHOOSE x \in ts : TRUE
         IN  Cardinality(conns[t].set) + total_connections(ts \ {t})

\* connect, lines 71-74: the polling loop is started only when the task id is not a
\* key of monitoring_tasks.
start_monitoring(t) ==
    IF monitoring[t] = "absent"
    THEN /\ monitoring' = [monitoring EXCEPT ![t] = "true"]
         /\ monitors' = [monitors EXCEPT ![t] = [NoMonitor EXCEPT !.pc = "sleep"]]
    ELSE UNCHANGED <<monitoring, monitors>>

\* The workflow state after the first k stages each produced one item.
RECURSIVE StagesRunThrough(_)
StagesRunThrough(k) ==
    IF k = 0 THEN create_initial_state
    ELSE agent_execute(k, StagesRunThrough(k - 1), [raises |-> FALSE, n |-> 1])

\* The response of the watched job: its last stage is the fifth, or one that raised
\* and was routed to _handle_error.
WatchedResult ==
    LET k == Min(WatchedStages, 5)
    IN  IF k = 5
        THEN process_results(StagesRunThrough(5))
        ELSE process_results(handle_error(
                 agent_execute(k, StagesRunThrough(k - 1), [raises |-> TRUE, n |-> 0])))

ServingInit ==
    /\ ledger \in {NoRow, PendingRow}
    /\ lastOp = "none"
    /\ TrackerInit
    /\ BodyInit
    /\ PubInit
    /\ args = [jd |-> "text", resume |-> "text"]
    /\ pc = At("w_write", 0)
    /\ wf = create_initial_state
    /\ result = NoResult
    /\ ConnInit

\* connect up to its first await: the two limit checks, then close or accept.
EndpointConnect(w) ==
    /\ wsock[w] = "closed"
    /\ LET t == task_of(w)
       IN  wsock' = [wsock EXCEPT ![w] =
              IF \/ total_connections(TaskIds) >= max_total_connections
                 \/ conns[t].present
                    /\ Cardinality(conns[t].set) >= max_connections_per_task
              THEN "rejecting" ELSE "accepting"]
    /\ UNCHANGED <<ledger, tracker, lastOp, workerVars, body, pub, sent, poll, seq, evaluation, api, inbox, conns, monitoring, subs,
                   channels, handlers, unsubs, monitors>>

\* connect after accept(): registers the socket, then subscribe_to_task up to its
\* await of pubsub.subscribe, or, when the task id is already a key of
\* _subscriptions, straight on to the start of the polling loop.
ConnectAccepted(w) ==
    /\ wsock[w] = "accepting"
    /\ LET t == task_of(w)
       IN  /\ conns' = [conns EXCEPT ![t] = [present |-> TRUE, set |-> @.set \cup {w}]]
           /\ IF subs[t] # None
              THEN /\ start_monitoring(t)
                   /\ wsock' = [wsock EXCEPT ![w] = "open"]
              ELSE /\ wsock' = [wsock EXCEPT ![w] = "subscribing"]
                   /\ UNCHANGED <<monitoring, monitors>>
    /\ UNCHANGED <<ledger, tracker, lastOp, workerVars, body, pub, sent, poll, seq, evaluation, api, inbox, subs, channels, handlers,
                   unsubs>>

\* subscribe_to_task after pubsub.subscribe returned: a handler task is created and
\* stored under the task id; connect then starts the polling loop.
ConnectSubscribed(w) ==
    /\ wsock[w] = "subscribing"
    /\ LET t == task_of(w)
       IN  /\ channels' = channels \cup {t}
           /\ handlers' = handlers \cup {[id |-> w, tid |-> t]}
           /\ subs' = [subs EXCEPT ![t] = w]
           /\ start_monitoring(t)
    /\ wsock' = [wsock EXCEPT ![w] = "open"]
    /\ UNCHANGED <<ledger, tracker, lastOp, workerVars, body, pub, sent, poll, seq, evaluation, api, inbox, conns, unsubs>>

\* The endpoint's receive loop ends (client gone, or the server closed the socket):
\* disconnect(websocket, task_id).  The client is gone and so is what it had seen.
EndpointDisconnect(w) ==
    /\ wsock[w] \in {"open", "rejecting"}
    /\ wsock' = [wsock EXCEPT ![w] = "gone"]
    /\ inbox' = [inbox EXCEPT ![w] = NoMessage]
    /\ LET t == task_of(w)
       IN  IF conns[t].present
           THEN IF conns[t].set \ {w} = {}
                THEN /\ conns' = [conns EXCEPT ![t] = [present |-> FALSE, set |-> {}]]
                     /\ monitoring' = [monitoring EXCEPT ![t] = "false"]
                     /\ unsubs' = unsubs \cup {[id |-> w, tid |-> t, pc |-> "start"]}
                ELSE /\ conns' = [conns EXCEPT ![t].set = @ \ {w}]
                     /\ UNCHANGED <<monitoring, unsubs>>
           ELSE UNCHANGED <<conns, monitoring, unsubs>>
    /\ UNCHANGED <<ledger, tracker, lastOp, workerVars, body, pub, sent, poll, seq, evaluation, api, subs, channels, handlers,
                   monitors>>

\* The deferred _unsubscribe_from_redis_events task, up to its first await:
\* unsubscribe_from_task pops and cancels whatever handler is stored under the id.
UnsubscribeStart(u) ==
    /\ u \in unsubs /\ u.pc = "start"
    /\ IF subs[u.tid] = None
       THEN /\ unsubs' = unsubs \ {u}
            /\ UNCHANGED <<subs, handlers>>
       ELSE /\ subs' = [subs EXCEPT ![u.tid] = None]
            /\ handlers' = {h \in handlers : h.id # subs[u.tid]}
            /\ unsubs' = (unsubs \ {u}) \cup {[u EXCEPT !.pc = "unsubscribing"]}
    /\ UNCHANGED <<ledger, tracker, lastOp, workerVars, body, pub, sent, poll, seq, evaluation, api, inbox, conns, monitoring, wsock,
                   channels, monitors>>

\* ... and after the cancelled handler was awaited: pubsub.unsubscribe(channel).
UnsubscribeDone(u) ==
    /\ u \in unsubs /\ u.pc = "unsubscribing"
    /\ channels' = channels \ {u.tid}
    /\ unsubs' = unsubs \ {u}
    /\ UNCHANGED <<ledger, tracker, lastOp, workerVars, body, pub, sent, poll, seq, evaluation, api, inbox, conns, monitoring, wsock,
                   subs, handlers, monitors>>

\* A send loop that gives up at the first connection whose send raised.
send_to_connections_until_failure(net, t, msg, failed) ==
    IF failed = {}
    THEN [net EXCEPT !.inbox = [w \in Sockets |->
                                   IF w \in net.conns[t].set THEN msg ELSE net.inbox[w]],
                     !.attempts = @ + Cardinality(net.conns[t].set)]
    ELSE [net EXCEPT !.attempts = @ + 1]

\* The loop shared by the send functions: send_text to every connection of the set;
\* the connections whose send raised (failed) are discarded afterwards and the others
\* have received the message.  net: the registry and the clients' inboxes.
send_to_connections(net, t, msg, failed) ==
    LET targets == net.conns[t].set
    IN  [net EXCEPT !.conns = [net.conns EXCEPT ![t].set = @ \ failed],
                    !.inbox = [w \in Sockets |->
                                 IF w \in targets \ failed THEN msg ELSE net.inbox[w]],
                    !.attempts = @ + Cardinality(targets)]

\* ConnectionManager.send_progress_update
send_progress_update(net, t, progress, failed) ==
    IF ~net.conns[t].present THEN net
    ELSE send_to_connections(net, t, [NoMessage EXCEPT !.type = "progress_update",
                                                       !.task_id = t,
                                                       !.progress = progress], failed)

\* ConnectionManager.send_completion, up to its sleep
send_completion(net, t, progress, failed) ==
    IF ~net.conns[t].present THEN net
    ELSE send_to_connections(net, t, [NoMessage EXCEPT !.type = "task_completed",
                                                       !.task_id = t,
                                                       !.progress = progress], failed)

\* ConnectionManager.send_error
send_error(net, t, failed) ==
    IF ~net.conns[t].present THEN net
    ELSE send_to_connections(net, t, [NoMessage EXCEPT !.type = "error",
                                                       !.task_id = t], failed)

\* A broadcast without the test of line 168: the lookup of a task id that is no key
\* of active_connections raises KeyError.
broadcast_unguarded(net, t, msg, failed) ==
    IF ~net.conns[t].present THEN [net EXCEPT !.raised = TRUE]
    ELSE send_to_connections(net, t, msg, failed)

\* ConnectionManager.broadcast
broadcast(net, t, msg, failed) ==
    IF ~net.conns[t].present \/ net.conns[t].set = {} THEN net
    ELSE send_to_connections(net, t, msg, failed)

\* ConnectionManager.send_streaming_event: the envelope carries the task id the
\* caller passed; origin is the task id the event was published for.
send_streaming_event(net, t, origin, failed) ==
    IF ~net.conns[t].present \/ net.conns[t].set = {} THEN net
    ELSE broadcast(net, t, [NoMessage EXCEPT !.type = "stream_event",
                                             !.task_id = t,
                                             !.origin = origin], failed)

\* What a send function works on: the registry and the clients' inboxes, with the
\* number of send_text calls made and whether an exception left the function.
Net == [conns |-> conns, inbox |-> inbox, attempts |-> 0, raised |-> FALSE]

\* One iteration of the loop of monitor_task_progress, from the test of the flag to
\* the next sleep.  f1, f2, f3: the connections whose send_text raised in
\* send_progress_update, send_error and send_completion.
MonitorTick(t) ==
    /\ monitors[t].pc = "sleep"
    /\ LET m == monitors[t]
           row == RowOf(t)
           changed == row.progress # m.last_progress \/ row.status # m.last_status
           terminal == row.status \in {"completed", "failed"}
           done == [NoMonitor EXCEPT !.pc = "done"]
       IN  IF monitoring[t] # "true"
           THEN /\ monitors' = [monitors EXCEPT ![t] = done]
                /\ UNCHANGED <<conns, inbox>>
           ELSE IF ~row.exists
           THEN IF m.attempts + 1 <= max_attempts
                THEN /\ monitors' = [monitors EXCEPT ![t].attempts = @ + 1]
                     /\ UNCHANGED <<conns, inbox>>
                ELSE /\ monitors' = [monitors EXCEPT ![t] = done]
                     /\ \E f2 \in SUBSET conns[t].set :
                           LET net == send_error(Net, t, f2)
                           IN  conns' = net.conns /\ inbox' = net.inbox
           ELSE /\ \E f1 \in SUBSET conns[t].set :
                   \E f2 \in SUBSET (conns[t].set \ f1) :
                   \E f3 \in SUBSET (conns[t].set \ (f1 \cup f2)) :
                      LET net1 == IF changed
                                  THEN send_progress_update(Net, t, row.progress, f1)
                                  ELSE Net
                          net2 == IF row.status = "failed" /\ row.error_message # None
                                  THEN send_error(net1, t, f2)
                                  ELSE net1
                          net3 == IF terminal
                                  THEN send_completion(net2, t, row.progress, f3)
                                  ELSE net2
                      IN  /\ conns' = net3.conns
                          /\ inbox' = net3.inbox
                /\ monitors' = [monitors EXCEPT ![t] =
                      IF terminal
                      THEN IF conns[t].present THEN [done EXCEPT !.pc = "grace"] ELSE done
                      ELSE [pc |-> "sleep",
                            last_progress |-> row.progress,
                            last_status |-> row.status,
                            attempts |-> 0]]
    /\ UNCHANGED <<ledger, tracker, lastOp, workerVars, body, pub, sent, poll, seq, evaluation, api, monitoring, wsock, subs,
                   channels, handlers, unsubs>>

\* An event published on the channel of task id t, which the shared pubsub object is
\* subscribed to, is yielded by pubsub.listen() to one of the handler tasks that
\* iterate it; the handler forwards it under its own task id
\* (_handle_channel_messages, lines 152-178).
HandlerForwardsEvent(h, t) ==
    /\ h \in handlers
    /\ t \in channels
    /\ \E failed \in SUBSET conns[h.tid].set :
          LET net == send_streaming_event(Net, h.tid, t, failed)
          IN  conns' = net.conns /\ inbox' = net.inbox
    /\ UNCHANGED <<ledger, tracker, lastOp, workerVars, body, pub, sent, poll, seq, evaluation, api, monitoring, wsock, subs,
                   channels, handlers, unsubs, monitors>>

\* send_completion after its sleep(5): the flag is cleared and the loop breaks.
MonitorGrace(t) ==
    /\ monitors[t].pc = "grace"
    /\ monitoring' = [monitoring EXCEPT ![t] = "false"]
    /\ monitors' = [monitors EXCEPT ![t] = [NoMonitor EXCEPT !.pc = "done"]]
    /\ UNCHANGED <<ledger, tracker, lastOp, workerVars, body, pub, sent, poll, seq, evaluation, api, inbox, conns, wsock, subs,
                   channels, handlers, unsubs>>

\* The worker process writes the row of t1 while the serving process runs: the
\* ledger writes of generate_interview_questions_async in their order (lines 85,
\* 90-93, the two writes of wrapped_execute around each stage, 194-198), or the
\* fail_task of a document that is not found (lines 101-133).  pc.i counts the
\* writes made.
WorkerWrites ==
    /\ pc.at = "w_write"
    /\ ledger.exists
    /\ LET i == pc.i
           last == 2 + (2 * Min(WatchedStages, 5))
       IN  \/ /\ i = 0
              /\ ledger' = update_status_to_in_progress(ledger)
              /\ lastOp' = "update_status_to_in_progress"
              /\ pc' = At("w_write", 1)
           \/ /\ i = 1
              /\ ledger' = update_progress(ledger, 5, "Starting question generation...")
              /\ lastOp' = "update_progress"
              /\ pc' = At("w_write", 2)
           \/ /\ i = 2
              /\ ledger' = fail_task(ledger, "JD document not found")
              /\ lastOp' = "fail_task"
              /\ pc' = At("w_done", 0)
           \/ /\ i >= 2 /\ i < last
              /\ ledger' = update_agent_progress(ledger, AgentNames[i \div 2],
                                                 IF i % 2 = 0 THEN 0 ELSE 100)
              /\ lastOp' = "update_progress"
              /\ pc' = At("w_write", i + 1)
           \/ /\ i = last
              /\ ledger' = complete_task(ledger, WatchedResult, None)
              /\ lastOp' = "complete_task"
              /\ pc' = At("w_done", 0)
    /\ UNCHANGED <<tracker, args, wf, result, body, pub, connVars>>

\* The endpoint coroutines and the deferred unsubscribe tasks.
AttachNext ==
    \/ \E w \in Sockets :
          \/ EndpointConnect(w)
          \/ ConnectAccepted(w)
          \/ ConnectSubscribed(w)
          \/ EndpointDisconnect(w)
    \/ \E u \in unsubs : UnsubscribeStart(u) \/ UnsubscribeDone(u)

ConnectionNext ==
    \/ AttachNext
    \/ \E t \in TaskIds : MonitorTick(t) \/ MonitorGrace(t)

\* The serving process next to the worker that writes the row of t1.
ServingNext ==
    \/ ConnectionNext
    \/ WorkerWrites

SpecConn == ServingInit /\ [][ServingNext]_vars

\* Four clients that open a websocket for the same queued task.
CapsInit ==
    /\ ledger = PendingRow
    /\ lastOp = "none"
    /\ TrackerInit
    /\ BodyInit
    /\ PubInit
    /\ args = [jd |-> "text", resume |-> "text"]
    /\ pc = At("w_done", 0)
    /\ wf = create_initial_state
    /\ result = NoResult
    /\ ConnInitWith({"a", "b", "d", "e"})

SpecCaps == CapsInit /\ [][AttachNext]_vars

\* The send functions called one at a time on a registry that holds connections:
\* a, b under t1 and c under t2, any of them already removed, and a task id
\* without connection a key with an empty set or no key at all.
SendInit ==
    /\ ledger = PendingRow
    /\ lastOp = "none"
    /\ TrackerInit
    /\ BodyInit
    /\ PubInit
    /\ args = [jd |-> "text", resume |-> "text"]
    /\ pc = At("w_done", 0)
    /\ wf = create_initial_state
    /\ result = NoResult
    /\ \E s1 \in SUBSET {"a", "b"}, s2 \in SUBSET {"c"}, keys \in SUBSET TaskIds :
          /\ (s1 # {} => "t1" \in keys) /\ (s2 # {} => "t2" \in keys)
          /\ conns = [t \in TaskIds |->
                        [present |-> t \in keys, set |-> IF t = "t1" THEN s1 ELSE s2]]
          /\ wsock = [w \in Sockets |-> IF w \in s1 \cup s2 THEN "open" ELSE "unused"]
    /\ monitoring = [t \in TaskIds |-> "true"]
    /\ subs = [t \in TaskIds |-> None]
    /\ channels = {}
    /\ handlers = {}
    /\ unsubs = {}
    /\ monitors = [t \in TaskIds |-> NoMonitor]
    /\ inbox = [w \in Sockets |-> NoMessage]
    /\ sent = NoSend
    /\ poll = [t \in TaskIds |-> NoPoll]
    /\ seq = NoSeq
    /\ api = NoApi
    /\ evaluation = NoEvaluation

SendFunctions == {"broadcast", "send_progress_update", "send_completion", "send_error",
                  "send_streaming_event"}

\* One call fn(task_id, ...) in which the sends to the connections of failed raise.
CallSend(fn, t, failed) ==
    /\ fn \in SendFunctions
    /\ failed \subseteq conns[t].set
    /\ LET net == CASE fn = "broadcast" ->
                         broadcast(Net, t, [NoMessage EXCEPT !.type = "raw",
                                                             !.task_id = t], failed)
                     [] fn = "send_progress_update" ->
                         send_progress_update(Net, t, RowOf(t).progress, failed)
                     [] fn = "send_completion" ->
                         send_completion(Net, t, RowOf(t).progress, failed)
                     [] fn = "send_error" ->
                         send_error(Net, t, failed)
                     [] fn = "send_streaming_event" ->
                         send_streaming_event(Net, t, t, failed)
       IN  /\ conns' = net.conns
           /\ inbox' = net.inbox
           /\ sent' = [fn |-> fn, task_id |-> t, failed |-> failed,
                       attempts |-> net.attempts, raised |-> net.raised]
    /\ monitoring' = IF fn = "send_completion" /\ conns[t].present
                      THEN [monitoring EXCEPT ![t] = "false"]
                      ELSE monitoring
    /\ UNCHANGED <<ledger, tracker, lastOp, workerVars, body, pub, poll, seq, evaluation, api, wsock, subs, channels,
                   handlers, unsubs, monitors>>

SendNext == \E fn \in SendFunctions, t \in TaskIds :
               \E failed \in SUBSET conns[t].set : CallSend(fn, t, failed)

SpecSend == SendInit /\ [][SendNext]_vars

\* The serving process while events arrive on the broker channels.
FanoutNext ==
    \/ ConnectionNext
    \/ \E h \in handlers, t \in TaskIds : HandlerForwardsEvent(h, t)

\* The task of t1 is queued, or has already completed.
FanoutInit ==
    /\ ledger \in {PendingRow, complete_task(PendingRow, WatchedResult, None)}
    /\ lastOp = "none"
    /\ TrackerInit
    /\ BodyInit
    /\ PubInit
    /\ args = [jd |-> "text", resume |-> "text"]
    /\ pc = At("w_done", 0)
    /\ wf = create_initial_state
    /\ result = NoResult
    /\ ConnInit

SpecFanout == FanoutInit /\ [][FanoutNext]_vars

(***************************************************************************)
(* The polling loop followed from await to await: the send loops iterate   *)
(* the registered set while they await send_text, and the endpoint         *)
(* coroutines run in between.                                              *)
(***************************************************************************)
\* The send calls one iteration makes after reading row (lines 276-318), in order.
TickCalls(m, row) ==
    (IF row.progress # m.last_progress \/ row.status # m.last_status
     THEN <<"send_progress_update">> ELSE <<>>)
    \o (IF row.status = "failed" /\ row.error_message # None
        THEN <<"send_error">> ELSE <<>>)
    \o (IF row.status \in {"completed", "failed"} THEN <<"send_completion">> ELSE <<>>)

\* The message each send function builds.
poll_message(fn, t, progress) ==
    CASE fn = "send_progress_update" ->
            [NoMessage EXCEPT !.type = "progress_update", !.task_id = t,
                              !.progress = progress]
      [] fn = "send_completion" ->
            [NoMessage EXCEPT !.type = "task_completed", !.task_id = t,
                              !.progress = progress]
      [] OTHER -> [NoMessage EXCEPT !.type = "error", !.task_id = t]

\* The tick runs on from the call of Head(p.queue) to its next await, with cs the
\* registry entry of t: a send function returns at once when t is no key, its loop
\* has no iteration when the set is empty, and otherwise it suspends in the
\* send_text of the first connection the iterator yields.  send_completion goes on
\* to its sleep(5); the tick ends in break or in the sleep before the next tick.
\* The result is the set of [p, m]: the tick and the locals of the loop.
RECURSIVE run_calls(_, _, _, _)
run_calls(t, p, m, cs) ==
    IF p.queue = <<>>
    THEN {[p |-> p, m |-> [m EXCEPT !.pc = IF p.leave THEN "done" ELSE "sleep"]]}
    ELSE LET fn == Head(p.queue)
             called == [p EXCEPT !.calls = Append(@, fn)]
             returned == [called EXCEPT !.queue = Tail(@), !.w = None]
             m2 == IF fn = "send_progress_update"
                   THEN [m EXCEPT !.last_progress = p.progress, !.last_status = p.status]
                   ELSE m
         IN  IF ~cs.present THEN run_calls(t, returned, m2, cs)
             ELSE IF cs.set = {}
             THEN IF fn = "send_completion"
                  THEN {[p |-> returned, m |-> [m EXCEPT !.pc = "grace"]]}
                  ELSE run_calls(t, returned, m2, cs)
             ELSE {[p |-> [called EXCEPT !.w = w, !.used = Cardinality(cs.set),
                                         !.members = cs.set, !.visited = {w},
                                         !.failed = {}],
                    m |-> [m EXCEPT !.pc = "sending"]] : w \in cs.set}

\* One iteration of the loop of monitor_task_progress from the test of the flag to
\* its first await.
PollTick(t) ==
    /\ monitors[t].pc = "sleep"
    /\ LET m == monitors[t]
           row == RowOf(t)
           read == [NoPoll EXCEPT !.progress = row.progress, !.status = row.status]
       IN  IF monitoring[t] # "true"
           THEN /\ monitors' = [monitors EXCEPT ![t].pc = "done"]
                /\ UNCHANGED poll
           ELSE IF ~row.exists /\ m.attempts + 1 <= max_attempts
           THEN /\ monitors' = [monitors EXCEPT ![t].attempts = @ + 1]
                /\ UNCHANGED poll
           ELSE \E o \in run_calls(t,
                           IF row.exists
                           THEN [read EXCEPT !.queue = TickCalls(m, row),
                                             !.leave = row.status \in {"completed", "failed"}]
                           ELSE [NoPoll EXCEPT !.queue = <<"send_error">>, !.leave = TRUE],
                           [m EXCEPT !.attempts = IF row.exists THEN 0 ELSE @ + 1],
                           conns[t]) :
                   /\ poll' = [poll EXCEPT ![t] = o.p]
                   /\ monitors' = [monitors EXCEPT ![t] = o.m]
    /\ UNCHANGED <<ledger, tracker, lastOp, workerVars, body, pub, sent, seq, evaluation, api, inbox, conns,
                   monitoring, wsock, subs, channels, handlers, unsubs>>

\* The send_text the tick awaits returns (ok) or raises; the for loop then asks its
\* iterator for the next connection.  The iterator raises RuntimeError when the
\* set it was taken from has another size than at the start (disconnect emptied
\* and dropped it, which leaves the flag False, or an endpoint added or discarded
\* a connection); the exception leaves the send function and ends
\* monitor_task_progress in its except clause (lines 333-336).  On a set that was
\* changed and has its size again the iterator may yield any connection not yet
\* yielded, or none.  After the loop the failed connections are discarded and the
\* tick runs on.
PollSendReturns(t) ==
    /\ monitors[t].pc = "sending"
    /\ LET p == poll[t]
           m == monitors[t]
           fn == Head(p.queue)
           cs == conns[t]
           rest == cs.set \ p.visited
       IN  \E ok \in (IF wsock[p.w] = "gone" THEN {FALSE} ELSE BOOLEAN) :
              LET failed1 == IF ok THEN p.failed ELSE p.failed \cup {p.w}
                  inbox1 == IF ok
                            THEN [inbox EXCEPT ![p.w] = poll_message(fn, t, p.progress)]
                            ELSE inbox
              IN  IF monitoring[t] = "false" \/ Cardinality(cs.set) # p.used
                  THEN /\ poll' = [poll EXCEPT ![t] = [p EXCEPT !.raised = TRUE,
                                                                !.failed = failed1]]
                       /\ monitors' = [monitors EXCEPT ![t].pc = "done"]
                       /\ inbox' = inbox1
                       /\ UNCHANGED conns
                  ELSE \/ \E w \in rest :
                             /\ poll' = [poll EXCEPT ![t] = [p EXCEPT !.w = w,
                                                                !.visited = @ \cup {w},
                                                                !.failed = failed1]]
                             /\ inbox' = inbox1
                             /\ UNCHANGED <<conns, monitors>>
                       \/ /\ rest = {} \/ cs.set # p.members
                          /\ LET cs1 == [cs EXCEPT !.set = @ \ failed1]
                                 returned == [p EXCEPT !.queue = Tail(@), !.w = None,
                                                       !.failed = failed1]
                                 m2 == IF fn = "send_progress_update"
                                       THEN [m EXCEPT !.last_progress = p.progress,
                                                      !.last_status = p.status]
                                       ELSE m
                             IN  \E o \in (IF fn = "send_completion"
                                           THEN {[p |-> returned,
                                                  m |-> [m EXCEPT !.pc = "grace"]]}
                                           ELSE run_calls(t, returned, m2, cs1)) :
                                    /\ poll' = [poll EXCEPT ![t] = o.p]
                                    /\ monitors' = [monitors EXCEPT ![t] = o.m]
                                    /\ conns' = [conns EXCEPT ![t] = cs1]
                                    /\ inbox' = inbox1
    /\ UNCHANGED <<ledger, tracker, lastOp, workerVars, body, pub, sent, seq, evaluation, api, monitoring, wsock,
                   subs, channels, handlers, unsubs>>

\* Two clients open a websocket for t1 while the worker runs its job.
PollInit ==
    /\ ledger \in {NoRow, PendingRow}
    /\ lastOp = "none"
    /\ TrackerInit
    /\ BodyInit
    /\ PubInit
    /\ args = [jd |-> "text", resume |-> "text"]
    /\ pc = At("w_write", 0)
    /\ wf = create_initial_state
    /\ result = NoResult
    /\ ConnInitWith({"a", "b"})

PollNext ==
    \/ AttachNext
    \/ WorkerWrites
    \/ \E t \in TaskIds : PollTick(t) \/ PollSendReturns(t) \/ MonitorGrace(t)

SpecPoll == PollInit /\ [][PollNext]_vars

(***************************************************************************)
(* StreamManager._get_next_sequence_id called from several threads, one    *)
(* bytecode-level access of the shared fields per step.                    *)
(***************************************************************************)
\* Entering `with self._sequence_lock` without waiting for the lock.
lock_is_free_unchecked(s, i) == TRUE

\* `with self._sequence_lock`: the thread enters when no thread holds the lock.
lock_is_free(s, i) == s.lock[i] = None

\* emit_event_sync is called on instance i by thread x, which acquires the lock.
ThreadAcquires(x, i) ==
    /\ seq.th[x].pc = "idle"
    /\ seq.th[x].emitted < MaxEmits
    /\ lock_is_free(seq, i)
    /\ seq' = [seq EXCEPT !.lock[i] = x,
                          !.th[x] = [@ EXCEPT !.pc = "load", !.on = i]]
    /\ UNCHANGED seqFrame

\* self._sequence_counter += 1: the read ...
ThreadLoads(x) ==
    /\ seq.th[x].pc = "load"
    /\ seq' = [seq EXCEPT !.th[x] = [@ EXCEPT !.pc = "store",
                                              !.value = seq.counter[seq.th[x].on]]]
    /\ UNCHANGED seqFrame

\* ... and the write of the incremented value.
ThreadStores(x) ==
    /\ seq.th[x].pc = "store"
    /\ seq' = [seq EXCEPT !.counter[seq.th[x].on] = seq.th[x].value + 1,
                          !.th[x].pc = "return"]
    /\ UNCHANGED seqFrame

\* return self._sequence_counter: the field is read again, and the lock is released
\* on the way out of the with block.
ThreadReturns(x) ==
    /\ seq.th[x].pc = "return"
    /\ LET i == seq.th[x].on
           id == seq.counter[i]
       IN  seq' = [seq EXCEPT !.issued[i] = Append(@, [id |-> id, by |-> x]),
                              !.lock[i] = None,
                              !.th[x] = [@ EXCEPT !.pc = "assign", !.value = id]]
    /\ UNCHANGED seqFrame

\* event.sequence_id = <the returned id>; the callbacks and the publish follow.
ThreadAssigns(x) ==
    /\ seq.th[x].pc = "assign"
    /\ seq' = [seq EXCEPT !.th[x] = [@ EXCEPT !.pc = "idle", !.emitted = @ + 1]]
    /\ UNCHANGED seqFrame

SequenceInit ==
    /\ ledger = PendingRow
    /\ lastOp = "none"
    /\ TrackerInit
    /\ BodyInit
    /\ PubInit
    /\ args = [jd |-> "text", resume |-> "text"]
    /\ pc = At("w_done", 0)
    /\ wf = create_initial_state
    /\ result = NoResult
    /\ ConnInit

SequenceNext ==
    \E x \in Threads :
       \/ \E i \in Instances : ThreadAcquires(x, i)
       \/ ThreadLoads(x)
       \/ ThreadStores(x)
       \/ ThreadReturns(x)
       \/ ThreadAssigns(x)

SpecSequence == SequenceInit /\ [][SequenceNext]_vars

(***************************************************************************)
(* _create_error_response on any AgentResult history.                      *)
(***************************************************************************)
RECURSIVE HistoriesOfLength(_)
HistoriesOfLength(n) ==
    IF n = 0 THEN {<<>>}
    ELSE {Append(h, [agent_name |-> AgentNames[i], success |-> ok,
                     error_message |-> IF ok THEN None ELSE "failed"]) :
             h \in HistoriesOfLength(n - 1), i \in 1..5, ok \in BOOLEAN}

\* The final state of a graph run that did not reach COMPLETED, with any history.
HistoryInit ==
    /\ ledger = PendingRow
    /\ lastOp = "none"
    /\ TrackerInit
    /\ BodyInit
    /\ PubInit
    /\ args = [jd |-> "text", resume |-> "text"]
    /\ pc = At("o_final", 0)
    /\ \E n \in 0..MaxHistory, stage \in {"error", "questions_evaluated"} :
       \E h \in HistoriesOfLength(n) :
          wf = [create_initial_state EXCEPT !.agent_results = h,
                                            !.processing_stage = stage]
    /\ result = NoResult
    /\ ConnInit

\* generate_technical_interview builds the response of the failed run.
BuildErrorResponse ==
    /\ pc.at = "o_final"
    /\ result' = process_results(wf)
    /\ pc' = At("o_response", 0)
    /\ UNCHANGED <<ledger, tracker, lastOp, args, wf, body, pub, connVars>>

SpecHistory == HistoryInit /\ [][BuildErrorResponse]_vars

(***************************************************************************)
(* The request that starts a job: app/api/v1/routes.py, and the worker     *)
(* that takes the job from the queue.                                      *)
(***************************************************************************)
\* An apply_async made at the start of the handler, before the row is committed.
ApiEnqueuesBeforeCommit ==
    /\ api.pc = "request"
    /\ api.queued = None
    /\ api' = [api EXCEPT !.queued = "t1"]
    /\ UNCHANGED <<ledger, tracker, lastOp, workerVars, body, pub, sent, poll, seq, evaluation, conns,
                   monitoring, wsock, subs, channels, handlers, unsubs, monitors, inbox>>

\* lines 739-763: the task id is drawn and the pending row is added and committed.
ApiCommitsRow ==
    /\ api.pc = "request"
    /\ ledger' = PendingRow
    /\ api' = [api EXCEPT !.pc = "committed"]
    /\ UNCHANGED <<tracker, lastOp, workerVars, body, pub, sent, poll, seq, evaluation, conns, monitoring,
                   wsock, subs, channels, handlers, unsubs, monitors, inbox>>

\* lines 768-778: apply_async(args, task_id = task_id) puts the job on the queue
\* under the id of the row, or raises (the handler then answers 500 and the row
\* stays pending).
ApiEnqueues ==
    /\ api.pc = "committed"
    /\ \E sent_to_broker \in BOOLEAN :
          api' = [pc |-> "returned", queued |-> IF sent_to_broker THEN "t1" ELSE None]
    /\ UNCHANGED <<ledger, tracker, lastOp, workerVars, body, pub, sent, poll, seq, evaluation, conns,
                   monitoring, wsock, subs, channels, handlers, unsubs, monitors, inbox>>

\* A worker takes the job: generate_interview_questions_async starts with
\* task_id = self.request.id (line 72).
WorkerTakesJob ==
    /\ api.queued = "t1"
    /\ pc.at = "w_idle"
    /\ api' = [api EXCEPT !.queued = None]
    /\ pc' = At("w_start", 0)
    /\ lastOp' = "none"
    /\ UNCHANGED <<ledger, tracker, args, wf, result, body, pub, sent, poll, seq, evaluation, conns,
                   monitoring, wsock, subs, channels, handlers, unsubs, monitors, inbox>>

\* A request arrives; no row and no job exist for the id it will draw.
StartInit ==
    /\ ledger = NoRow
    /\ lastOp = "none"
    /\ TrackerInit
    /\ BodyInit
    /\ PubInit
    /\ args \in [jd : DocCases, resume : DocCases]
    /\ pc = At("w_idle", 0)
    /\ wf = create_initial_state
    /\ result = NoResult
    /\ conns = [t \in TaskIds |-> [present |-> FALSE, set |-> {}]]
    /\ monitoring = [t \in TaskIds |-> "absent"]
    /\ wsock = [w \in Sockets |-> "unused"]
    /\ subs = [t \in TaskIds |-> None]
    /\ channels = {}
    /\ handlers = {}
    /\ unsubs = {}
    /\ monitors = [t \in TaskIds |-> NoMonitor]
    /\ inbox = [w \in Sockets |-> NoMessage]
    /\ sent = NoSend
    /\ poll = [t \in TaskIds |-> NoPoll]
    /\ seq = NoSeq
    /\ api = [pc |-> "request", queued |-> None]
    /\ evaluation = NoEvaluation

StartNext ==
    \/ ApiCommitsRow
    \/ ApiEnqueues
    \/ WorkerTakesJob
    \/ WorkerNext

SpecStart == StartInit /\ [][StartNext]_vars

(***************************************************************************)
(* QuestionEvaluationAgent._evaluate_question and its fallback             *)
(* (app/services/qgen/agents/question_evaluation_agent.py).                *)
(***************************************************************************)
Scores == 1..5
\* A question as the fallback reads it: difficulty_level, and whether its text holds
\* one of the five keywords, the name of the skill, a word of more than three
\* letters of the skill's context.
Questions == [difficulty_level : Scores, has_keyword : BOOLEAN, names_skill : BOOLEAN,
              mentions_context : BOOLEAN]
\* The extracted skill whose name is the question's targeted_skill, when the loop of
\* lines 125-128 finds one.
Skills == {k \in [found : BOOLEAN, confidence_score : Scores] :
              ~k.found => k.confidence_score = 1}
\* The text-generation call raises, or returns an evaluation of its own.
LlmEvaluations ==
    {[NoQuestionEvaluation EXCEPT !.technical_depth_score = d, !.relevance_score = d,
                                  !.difficulty_appropriateness = d,
                                  !.non_generic_score = d, !.overall_quality = d,
                                  !.approved = a, !.feedback = "llm"] :
        d \in Scores, a \in BOOLEAN}
LlmOutcomes == {[raises |-> TRUE, evaluation |-> NoQuestionEvaluation]}
               \cup {[raises |-> FALSE, evaluation |-> e] : e \in LlmEvaluations}

\* A fallback whose defaults are 2 instead of 3.
create_fallback_evaluation_low_default(question, skill) ==
    LET technical_depth == IF question.has_keyword THEN 4 ELSE 2
        relevance == IF question.names_skill THEN 4 ELSE 2
        difficulty_appropriateness ==
            IF question.difficulty_level <= skill.confidence_score THEN 4 ELSE 2
        non_generic == IF question.mentions_context THEN 4 ELSE 2
        overall == (technical_depth + relevance + difficulty_appropriateness
                    + non_generic) \div 4
    IN  [NoQuestionEvaluation EXCEPT
            !.technical_depth_score = technical_depth,
            !.relevance_score = relevance,
            !.difficulty_appropriateness = difficulty_appropriateness,
            !.non_generic_score = non_generic,
            !.overall_quality = overall,
            !.approved = overall >= 3,
            !.feedback = "fallback"]

\* _create_fallback_evaluation
create_fallback_evaluation(question, skill) ==
    LET technical_depth == IF question.has_keyword THEN 4 ELSE 3
        relevance == IF question.names_skill THEN 4 ELSE 3
        difficulty_appropriateness ==
            IF question.difficulty_level <= skill.confidence_score THEN 4 ELSE 3
        non_generic == IF question.mentions_context THEN 4 ELSE 3
        overall == (technical_depth + relevance + difficulty_appropriateness
                    + non_generic) \div 4
    IN  [NoQuestionEvaluation EXCEPT
            !.technical_depth_score = technical_depth,
            !.relevance_score = relevance,
            !.difficulty_appropriateness = difficulty_appropriateness,
            !.non_generic_score = non_generic,
            !.overall_quality = overall,
            !.approved = overall >= 3,
            !.feedback = "fallback"]

\* _evaluate_question
evaluate_question(question, skill, llm) ==
    IF ~skill.found
    THEN [NoQuestionEvaluation EXCEPT
             !.technical_depth_score = 2, !.relevance_score = 2,
             !.difficulty_appropriateness = 2, !.non_generic_score = 2,
             !.overall_quality = 2, !.approved = FALSE, !.feedback = "no skill"]
    ELSE IF llm.raises
    THEN [create_fallback_evaluation(question, skill) EXCEPT !.llm_calls = 1]
    ELSE [llm.evaluation EXCEPT !.llm_calls = 1]

EvaluateInit ==
    /\ ledger = PendingRow
    /\ lastOp = "none"
    /\ TrackerInit
    /\ BodyInit
    /\ PubInit
    /\ args = [jd |-> "text", resume |-> "text"]
    /\ pc = At("evaluate", 0)
    /\ wf = create_initial_state
    /\ result = NoResult
    /\ conns = [t \in TaskIds |-> [present |-> FALSE, set |-> {}]]
    /\ monitoring = [t \in TaskIds |-> "absent"]
    /\ wsock = [w \in Sockets |-> "unused"]
    /\ subs = [t \in TaskIds |-> None]
    /\ channels = {}
    /\ handlers = {}
    /\ unsubs = {}
    /\ monitors = [t \in TaskIds |-> NoMonitor]
    /\ inbox = [w \in Sockets |-> NoMessage]
    /\ sent = NoSend
    /\ poll = [t \in TaskIds |-> NoPoll]
    /\ seq = NoSeq
    /\ api = NoApi
    /\ \E q \in Questions, k \in Skills, llm \in LlmOutcomes :
          evaluation = [NoEvaluation EXCEPT !.question = q, !.skill = k, !.llm = llm]

\* One call of _evaluate_question.
EvaluateQuestion ==
    /\ pc.at = "evaluate"
    /\ evaluation' = [evaluation EXCEPT
                         !.out = evaluate_question(evaluation.question, evaluation.skill,
                                                   evaluation.llm)]
    /\ pc' = At("evaluated", 0)
    /\ UNCHANGED <<ledger, tracker, lastOp, args, wf, result, body, pub, sent, poll, seq, api,
                   conns, monitoring, wsock, subs, channels, handlers, unsubs, monitors,
                   inbox>>

SpecEvaluate == EvaluateInit /\ [][EvaluateQuestion]_vars

(***************************************************************************)
(* Properties                                                              *)
(***************************************************************************)
Terminal == {"completed", "failed"}
LastResult(st) == st.agent_results[Len(st.agent_results)]
AllStagesSucceeded(st) ==
    /\ Len(st.agent_results) = 5
    /\ \A k \in 1..5 : st.agent_results[k].success
WorkerReturned == pc.at \in {"w_notify", "w_done"}

\* C1: from one committed ledger write to the next, the stored progress never
\* decreases (update_progress and the update_agent_progress calls around each stage,
\* after the worker's initial update_progress(5)).
C1_ProgressNeverDecreases == [][ledger'.progress >= ledger.progress]_vars

\* C2: when the orchestrator run ended in the error state, the terminal ledger row
\* has status failed, carries an error_message, and is never completed.
C2_ErrorRunMarksTaskFailed ==
    (WorkerReturned /\ result.kind = "response" /\ ~result.success)
        => (ledger.status = "failed" /\ ledger.error_message # None)

\* C3: a completed or failed row has exactly one of result_data and error_message
\* set; a pending or in_progress row has neither.
ResultSet(l) == l.result_data.kind # "None"
ErrorSet(l) == l.error_message # None
C3_TerminalExclusivity ==
    ledger.exists =>
        /\ (ledger.status \in Terminal => (ResultSet(ledger) # ErrorSet(ledger)))
        /\ (ledger.status \in {"pending", "in_progress"}
               => (~ResultSet(ledger) /\ ~ErrorSet(ledger)))

\* C4: once the row is completed or failed, an update_progress or
\* update_agent_progress call leaves progress, current_step and status as they were.
C4_ProgressWriteAfterTerminalIsNoOp ==
    [][(ledger.status \in Terminal
          /\ lastOp' \in {"update_progress", "update_agent_progress"})
        => (/\ ledger'.progress = ledger.progress
            /\ ledger'.current_step = ledger.current_step
            /\ ledger'.status = ledger.status)]_vars

\* C5: when the stage body raised (a failed precondition check included), the
\* envelope or execute method that returned left processing_stage = ERROR and a
\* newest AgentResult with success = false and an error message.
C5_RaisingBodyYieldsErrorState ==
    (body.returned /\ body.raised)
        => /\ wf.processing_stage = "error"
           /\ Len(wf.agent_results) > 0
           /\ ~LastResult(wf).success
           /\ LastResult(wf).error_message # None

\* C6: the router after stage i picks the error sink when processing_stage is ERROR,
\* and otherwise stage i+1, or the end of the graph after the last stage; a stage
\* that succeeded is followed by nothing but its successor.
Successor(i) == IF i = 5 THEN At("o_finish", 5) ELSE At("stage_begin", i + 1)
C6_RoutingCorrect ==
    [][pc.at = "route"
        => /\ (wf.processing_stage = "error" => pc' = At("handle_error", pc.i))
           /\ (wf.processing_stage # "error" => pc' = Successor(pc.i))
           /\ (LastResult(wf).success => pc' = Successor(pc.i))]_vars
\* Stage 3 failed after stages 1 and 2 were routed onward.
C6_Witness ==
    /\ pc = At("handle_error", 3)
    /\ Len(wf.agent_results) = 3

\* C7: agent_results only grows at its end, names the stages in pipeline order with
\* one entry per stage that ran, and only its last entry can be a failure.
StagesRun ==
    IF pc.at \in {"stage_begin", "stage_body"} THEN pc.i - 1
    ELSE IF pc.at \in {"stage_end", "route", "handle_error", "o_finish"} THEN pc.i
    ELSE Len(wf.agent_results)
HistoryWellFormed ==
    /\ Len(wf.agent_results) = StagesRun
    /\ \A k \in 1..Len(wf.agent_results) :
          /\ wf.agent_results[k].agent_name = AgentNames[k]
          /\ (k < Len(wf.agent_results) => wf.agent_results[k].success)
HistoryAppendOnly ==
    /\ Len(wf'.agent_results) >= Len(wf.agent_results)
    /\ \A k \in 1..Len(wf.agent_results) : wf'.agent_results[k] = wf.agent_results[k]
C7_AgentResultsHistory == [](HistoryWellFormed) /\ [][HistoryAppendOnly]_vars
\* The run whose third stage failed has returned.
C7_Witness ==
    /\ pc.at = "w_done"
    /\ Len(wf.agent_results) = 3
    /\ wf.agent_results[1].success /\ wf.agent_results[2].success
    /\ ~wf.agent_results[3].success

Attached(w) == wsock[w] = "open" /\ w \in conns[task_of(w)].set
C9_PollingLoopForEveryAttach ==
    \A w \in Sockets :
        (/\ Attached(w)
         /\ RowOf(task_of(w)).exists
         /\ RowOf(task_of(w)).status \notin Terminal)
            => monitors[task_of(w)].pc = "sleep"

\* C10: a task id with registered connections has exactly one live
\* _handle_channel_messages task (checked in the states where no connect call and no
\* deferred unsubscribe for that task id is in flight).
Settled(t) ==
    /\ \A w \in Sockets :
          task_of(w) = t => wsock[w] \in {"unused", "closed", "open", "gone"}
    /\ \A u \in unsubs : u.tid # t
HandlersOf(t) == {h \in handlers : h.tid = t}
C10_ExactlyOneSubscriptionLoop ==
    \A t \in TaskIds :
        (conns[t].present /\ conns[t].set # {} /\ Settled(t))
            => Cardinality(HandlersOf(t)) = 1

\* C11: a stream event a client received was published for the task id its
\* connection is registered under.
C11_EventsReachOnlyTheirTask ==
    \A w \in Sockets :
        inbox[w].type = "stream_event" => inbox[w].origin = task_of(w)

\* C12: the registry never holds more than max_connections_per_task connections of
\* one task id nor more than max_total_connections in total, and a connection whose
\* attach was rejected is not registered.
C12_CapsNeverExceeded ==
    /\ \A t \in TaskIds : Cardinality(conns[t].set) <= max_connections_per_task
    /\ total_connections(TaskIds) <= max_total_connections
    /\ \A w \in Sockets : wsock[w] = "rejecting" => w \notin conns[task_of(w)].set

\* C13: a call of broadcast, send_progress_update, send_completion or send_error
\* delivers the message to every connection of the task id whose send did not raise,
\* removes from the registry exactly the connections whose send raised, and leaves
\* the connections of other task ids alone.
MessageType(fn) ==
    CASE fn = "broadcast" -> "raw"
      [] fn = "send_progress_update" -> "progress_update"
      [] fn = "send_completion" -> "task_completed"
      [] fn = "send_error" -> "error"
      [] fn = "send_streaming_event" -> "stream_event"
FanoutIsolated ==
    LET t == sent'.task_id
        healthy == conns[t].set \ sent'.failed
    IN  /\ conns'[t].set = healthy
        /\ \A w \in healthy : /\ inbox'[w].type = MessageType(sent'.fn)
                               /\ inbox'[w].task_id = t
        /\ \A w \in Sockets \ healthy : inbox'[w] = inbox[w]
        /\ \A u \in TaskIds \ {t} : conns'[u] = conns[u]
ObservedProgressNonDecreasing ==
    \A w \in Sockets :
        (/\ inbox[w].type = "progress_update"
         /\ inbox'[w].type = "progress_update"
         /\ w \in conns[task_of(w)].set
         /\ w \in conns'[task_of(w)].set)
        => inbox'[w].progress >= inbox[w].progress

C14_LateSubscriberMonotone == [][ObservedProgressNonDecreasing]_vars

\* C15: a task id whose last connection was removed has no subscription loop and no
\* polling loop left once everything started for it has run: no connection is
\* registered, every endpoint coroutine of the id has returned, no deferred
\* unsubscribe is pending and the polling loop is not about to test its flag.
NothingPendingFor(t) ==
    /\ conns[t].set = {}
    /\ \E w \in Sockets : task_of(w) = t /\ wsock[w] = "gone"
    /\ \A w \in Sockets : task_of(w) = t => wsock[w] \in {"gone", "unused"}
    /\ \A u \in unsubs : u.tid # t
    /\ monitors[t].pc \notin {"sleep", "grace"}
C15_TeardownAfterLastDetach ==
    \A t \in TaskIds :
        NothingPendingFor(t) => /\ HandlersOf(t) = {}
                                /\ subs[t] = None
                                /\ monitoring[t] # "true"

\* C16: a ledger write of the worker that fails is swallowed: the worker goes on
\* with the statement that follows the write, exactly as when the write succeeds
\* (so the orchestrator still runs and its outcome is not affected).
FailedWriteIsSwallowed == lastOp' = "write_failed" => pc' = WriteSuccessor(pc)
C16_LedgerWriteFailureSwallowed == [][FailedWriteIsSwallowed]_vars

\* C17: a publish failure inside an emission (connection error, timeout,
\* serialization error, failing local callback) is not raised to the stage and is
\* not retried: the execute call returns the WorkflowState, and emits the events,
\* of the call in which every publish succeeds, and every emitted event is handed
\* to the broker client at most once.
PublishFailureInvisible ==
    pc'.at = "execute_streamed" =>
        LET every_publish_succeeds ==
                agent_execute_streaming(pc'.i, wf, pub'.out, pub, "none", 0)
        IN  /\ ~pub'.raised
            /\ body'.returned
            /\ wf' = every_publish_succeeds.state
            /\ pub'.sequence_counter = every_publish_succeeds.pub.sequence_counter
            /\ \A a, b \in 1..Len(pub'.handed) :
                  pub'.handed[a].id = pub'.handed[b].id => a = b
C17_PublishFireAndForget == [][PublishFailureInvisible]_vars
C17_Witness ==
    /\ pc.at = "execute_streamed"
    /\ wf.processing_stage = "questions_evaluated"
    /\ pub.sequence_counter > Len(pub.handed)
    /\ \E j \in 1..Len(pub.handed) : pub.handed[j].event_type = "evaluation_result"

\* C18: every dispatched worker run ends with a terminal status (completed or
\* failed) written to the row of its task id, whichever path it takes, when the
\* row exists and the ledger writes succeed.
C18_RunReachesTerminalStatus == <>(pc.at = "w_done" /\ ledger.status \in Terminal)
C18_Witness ==
    /\ pc.at = "w_done"
    /\ ledger.status = "failed"
    /\ lastOp = "fail_task"
    /\ ~Falsy(args.jd)
    /\ args.jd # "missing" /\ args.resume # "missing"

\* C19: in an orchestrator run the stages execute in the fixed order, each at most
\* once and one at a time; a stage starts only after its predecessor returned with
\* its success marker; once the error state is entered no stage executes and the
\* run ends through handle_error.
InStage == pc.at \in {"stage_begin", "stage_body", "stage_end"}
StageStarts == pc'.at = "stage_begin" /\ pc.at # "stage_begin"
StagesInOrder ==
    /\ StageStarts =>
          \/ pc.at = "o_init" /\ pc'.i = 1 /\ wf'.agent_results = <<>>
          \/ /\ pc.at = "route"
             /\ pc'.i = pc.i + 1
             /\ wf.processing_stage = StageMarker[pc.i]
    /\ (pc.at = "stage_body" /\ pc'.at = "stage_end") =>
          /\ pc'.i = pc.i
          /\ Len(wf'.agent_results) = pc.i
          /\ \A k \in 1..pc.i : wf'.agent_results[k].agent_name = AgentNames[k]
    /\ (~InStage /\ pc'.at # "stage_begin") => wf'.agent_results = wf.agent_results
    /\ wf.processing_stage = "error" =>
          /\ pc'.at \notin {"stage_begin", "stage_body"}
          /\ pc.at = "route" => pc'.at = "handle_error"
          /\ pc.at = "handle_error" => pc'.at = "o_finish"
          /\ wf'.processing_stage = "error"
C19_StagesInOrderErrorAbsorbing == [][StagesInOrder]_vars
C19_Witness ==
    /\ pc.at = "o_finish"
    /\ wf.processing_stage = "error"
    /\ Len(wf.agent_results) = 3
    /\ wf.agent_results[1].success /\ wf.agent_results[2].success

\* C20: during a worker run, when a stage has executed, its start event, tagged
\* with the task id of the run, has been handed to the broker for that task's
\* channel.
C20_EveryStagePublishesStart ==
    pc.at = "stage_end" =>
        \E j \in 1..Len(pub.handed) :
            /\ pub.handed[j].agent_name = AgentNames[pc.i]
            /\ pub.handed[j].event_type = "agent_start"
            /\ pub.handed[j].task_id = "t1"

\* C21: in a stage that calls the text-generation service, a call that throws or
\* returns malformed or empty output is resolved inside the stage body: the stage
\* ends with its success marker and a successful AgentResult, and nothing is added
\* to the error list (checked for stages whose required input is present).
StageInputPresent(i, st) ==
    CASE i = 1 -> st.processing_stage = "initialized"
      [] i = 2 -> st.extracted_skills > 0
      [] i = 3 -> st.generated_questions > 0
      [] i = 4 -> st.approved_questions > 0
      [] OTHER -> st.approved_questions > 0 /\ st.expected_responses > 0
ServiceFailureStaysLocal ==
    (/\ pc'.at = "service_returned"
     /\ body'.service # "ok"
     /\ StageInputPresent(pc'.i, wf))
    => /\ wf'.processing_stage = StageMarker[pc'.i]
       /\ LastResult(wf').success
       /\ LastResult(wf').agent_name = AgentNames[pc'.i]
       /\ wf'.errors = wf.errors
C21_ServiceFailureResolvedLocally == [][ServiceFailureStaysLocal]_vars

\* C22: a stage whose required input is missing or empty fails without invoking its
\* body, records exactly one failed AgentResult and exactly one error-list entry,
\* and its router sends the run to the error state.  Checked for the agents' own
\* execute (stages 2..5 on a state that lacks their input) and for the
\* _safe_execute envelope when its validation fails.
InputMissingStep ==
    \/ pc'.at = "execute_returned" /\ pc'.i \in 2..5 /\ ~StageInputPresent(pc'.i, wf)
    \/ pc'.at = "safe_execute_returned" /\ ~body'.invoked
MissingInputFailsOnce ==
    InputMissingStep =>
        /\ Len(wf'.agent_results) = Len(wf.agent_results) + 1
        /\ ~LastResult(wf').success
        /\ LastResult(wf').agent_name = AgentNames[pc'.i]
        /\ Len(wf'.errors) = Len(wf.errors) + 1
        /\ route_from(pc'.i, wf') = "error"
        /\ wf'.extracted_skills = wf.extracted_skills
        /\ wf'.generated_questions = wf.generated_questions
        /\ wf'.approved_questions = wf.approved_questions
        /\ wf'.expected_responses = wf.expected_responses
C22_MissingInputFailsStage == [][MissingInputFailsOnce]_vars


\* C23: on each tick that reads the row the polling loop calls send_progress_update
\* if and only if (progress, status) differs from the pair it last sent; and a loop
\* that has read a terminal status and left has made, after the progress_update of
\* that tick, the completion call exactly once (preceded by the error call for a
\* failed task), in that tick.
TickReadsRow(t) ==
    /\ monitors[t].pc = "sleep" /\ monitors'[t] # monitors[t]
    /\ monitoring[t] = "true" /\ RowOf(t).exists
TickSendsIffChanged ==
    \A t \in TaskIds :
       TickReadsRow(t) =>
          ((\E k \in DOMAIN poll'[t].calls : poll'[t].calls[k] = "send_progress_update")
           <=> (RowOf(t).progress # monitors[t].last_progress
                \/ RowOf(t).status # monitors[t].last_status))
LeftAfterTerminal(t) == monitors[t].pc = "done" /\ poll[t].status \in Terminal
CompletionCalls(t) ==
    <<"send_progress_update">>
    \o (IF poll[t].status = "failed" /\ RowOf(t).error_message # None
        THEN <<"send_error">> ELSE <<>>)
    \o <<"send_completion">>
C23_PollerSendsChangesThenCompletion ==
    /\ [][TickSendsIffChanged]_vars
    /\ [](\A t \in TaskIds : LeftAfterTerminal(t) => poll[t].calls = CompletionCalls(t))


\* C24: on every StreamManager instance the k-th sequence id handed out is k, so
\* the ids of one instance are strictly increasing and unique whichever threads
\* emit concurrently, and each instance counts on its own.
C24_SequenceIdsIncreaseByOne ==
    \A i \in Instances :
       /\ \A k \in DOMAIN seq.issued[i] : seq.issued[i][k].id = k
       /\ seq.counter[i] <= Len(seq.issued[i]) + 1
\* Two threads have been handed ids by m1, one of them has not yet stored its id
\* in the event while the other was already handed a later one, and m2 has handed
\* out an id of its own.
C24_Witness ==
    /\ Len(seq.issued["m1"]) >= 2
    /\ \E j, k \in DOMAIN seq.issued["m1"] :
          j < k /\ seq.issued["m1"][j].by # seq.issued["m1"][k].by
    /\ Len(seq.issued["m2"]) >= 1
    /\ \E x \in Threads : seq.th[x].pc = "assign" /\ seq.th[x].on = "m1"
                          /\ seq.th[x].value < seq.counter["m1"]


\* C25: the response of a failed run names as failed_agent the first AgentResult of
\* the history with success = FALSE, and as last_successful_agent the successful
\* result just before it, or none when the history starts with the failure.
FailedResults(st) == {k \in DOMAIN st.agent_results : ~st.agent_results[k].success}
FirstFailed(st) == CHOOSE k \in FailedResults(st) : \A j \in FailedResults(st) : k <= j
C25_FailedAgentIsFirstFailure ==
    (pc.at = "o_response" /\ FailedResults(wf) # {}) =>
        /\ ~result.success
        /\ result.failed_agent = wf.agent_results[FirstFailed(wf)].agent_name
        /\ result.last_successful_agent =
              IF FirstFailed(wf) = 1 THEN None
              ELSE wf.agent_results[FirstFailed(wf) - 1].agent_name
\* A history of a success, a failure and a later success got its response.
C25_Witness ==
    /\ pc.at = "o_response"
    /\ Len(wf.agent_results) = 3
    /\ wf.agent_results[1].success /\ ~wf.agent_results[2].success
    /\ wf.agent_results[3].success
    /\ result.failed_agent = wf.agent_results[2].agent_name
    /\ result.last_successful_agent = wf.agent_results[1].agent_name
    /\ wf.agent_results[1].agent_name # wf.agent_results[3].agent_name


\* C26: send_streaming_event or broadcast called for a task id that has no
\* registered connection (no key, or a key with an empty set) makes no send_text
\* call, raises nothing, and leaves the registry, the clients, the monitoring flags
\* and the subscriptions as they were.
NoConnectionFor(t) == ~conns[t].present \/ conns[t].set = {}
DroppedWithoutConnection ==
    (sent'.fn \in {"broadcast", "send_streaming_event"} /\ NoConnectionFor(sent'.task_id))
    => /\ sent'.attempts = 0 /\ ~sent'.raised
       /\ UNCHANGED <<conns, inbox, monitoring, monitors, subs, channels, handlers, unsubs>>
C26_EventWithoutConnectionDropped == [][DroppedWithoutConnection]_vars
\* A stream event was forwarded for t1, which is no key of the registry, while t2
\* has a connection, and nobody received anything.
C26_Witness ==
    /\ sent.fn = "send_streaming_event" /\ sent.task_id = "t1"
    /\ ~conns["t1"].present /\ conns["t2"].set = {"c"}
    /\ sent.attempts = 0 /\ ~sent.raised
    /\ \A w \in Sockets : inbox[w] = NoMessage


\* C27: a worker run makes at most one terminal ledger write: whenever
\* complete_task or fail_task is called, neither of them has been called before in
\* the run (the row is not yet completed or failed), and the run makes no ledger
\* write afterwards.
TerminalWrites == {"complete_task", "fail_task"}
OneTerminalWrite ==
    /\ lastOp' \in TerminalWrites => ledger.status \notin Terminal
    /\ ledger.status \in Terminal => lastOp' = "none" /\ ledger' = ledger
C27_AtMostOneTerminalWrite == [][OneTerminalWrite]_vars
\* A run whose third stage failed has called complete_task, once, and returned.
C27_Witness ==
    /\ pc.at = "w_done"
    /\ ledger.status = "completed"
    /\ ~ledger.result_data.success
    /\ Len(wf.agent_results) = 3
    /\ ~LastResult(wf).success


\* C28: once stage k of a worker run has returned, and until the next stage starts,
\* the ledger holds progress 20 * k and the step label of stage k, for a stage that
\* succeeded as for one that failed.
StageReturned == pc.at \in {"route", "handle_error"}
StatusMoves == {<<None, "pending">>, <<"pending", "in_progress">>,
                <<"in_progress", "completed">>, <<"in_progress", "failed">>}
RowBeforeJob ==
    /\ (api'.queued # None /\ api.queued = None)
          => ledger.exists /\ ledger.status = "pending"
    /\ lastOp' = "update_status_to_in_progress"
          => ledger.exists /\ ledger.status = "pending" /\ ledger'.status = "in_progress"
    /\ ledger'.status # ledger.status => <<ledger.status, ledger'.status>> \in StatusMoves
FourScores(e) == <<e.technical_depth_score, e.relevance_score,
                   e.difficulty_appropriateness, e.non_generic_score>>
FloorOfMean(e) ==
    LET total == FourScores(e)[1] + FourScores(e)[2] + FourScores(e)[3] + FourScores(e)[4]
    IN  CHOOSE m \in 0..5 : 4 * m <= total /\ total < 4 * (m + 1)
C30_FallbackEvaluationApproves ==
    pc.at = "evaluated" =>
       LET e == evaluation.out
       IN  /\ (evaluation.skill.found /\ evaluation.llm.raises) =>
                 /\ \A k \in 1..4 : FourScores(e)[k] \in {3, 4}
                 /\ e.overall_quality = FloorOfMean(e)
                 /\ e.overall_quality \in {3, 4}
                 /\ e.approved
                 /\ e.llm_calls = 1
           /\ ~evaluation.skill.found =>
                 /\ \A k \in 1..4 : FourScores(e)[k] = 2
                 /\ e.overall_quality = 2
                 /\ ~e.approved
                 /\ e.llm_calls = 0
\* A fallback evaluation with three scores of 4 and one of 3: the mean 3.75 is
\* floored to 3 and the question is approved.
C30_Witness ==
    /\ pc.at = "evaluated"
    /\ evaluation.llm.raises
    /\ evaluation.skill.found
    /\ FourScores(evaluation.out) = <<4, 4, 4, 3>>
    /\ evaluation.out.overall_quality = 3
    /\ evaluation.out.approved

====
